---- MODULE Spec2Model ----
(***************************************************************************)
(* A model of the babel cross-ecosystem dependency resolver: the           *)
(* per-ecosystem indices, the OPAM version-formula compiler, the process-  *)
(* wide variable and conflict-class caches, and the unified index, driven  *)
(* by a resolver that calls choose_version and get_dependencies.           *)
(*                                                                         *)
(* Strings that the code inspects character by character (Alpine version   *)
(* strings) are sequences of one-character strings; OPAM versions, which   *)
(* the code under study only compares for equality and by range, are       *)
(* strings.                                                                *)
(***************************************************************************)
EXTENDS Integers, Sequences, FiniteSets, TLC

VARIABLES
    alpinePackages,  \* AlpineIndex.packages: name -> BTreeMap<AlpineVersion, Vec<Dependency>>
    indexPackages,   \* Index.packages (src/src/index.rs): name -> BTreeMap<OpamVersion, Deps>
    registered,      \* history: the (index, name, version) triples add_deps was called with
    varCache,        \* VARIABLE_CACHE: variable -> iteration order of its HashSet
    ccCache,         \* CONFLICT_CLASS_CACHE: class -> iteration order of its HashSet
    call,            \* the provider call made last: its operation, arguments and result
    compiled,        \* history: the (variable, literal) comparisons get_dependencies compiled
    solver           \* the resolver's state: decisions, recorded constraints, status

vars == <<alpinePackages, indexPackages, registered, varCache, ccCache, call, compiled, solver>>

-----------------------------------------------------------------------------
(* Generic helpers                                                         *)

Range(f) == {f[x] : x \in DOMAIN f}

RECURSIVE SeqFilter(_, _)
SeqFilter(s, S) ==
    IF s = <<>> THEN <<>>
    ELSE (IF Head(s) \in S THEN <<Head(s)>> ELSE <<>>) \o SeqFilter(Tail(s), S)

Reverse(s) == [i \in 1..Len(s) |-> s[Len(s) + 1 - i]]

\* Every ordering of the finite set S (the orders a HashSet may iterate in).
Orders(S) ==
    {s \in [1..Cardinality(S) -> S] : \A i, j \in 1..Cardinality(S) : i # j => s[i] # s[j]}

-----------------------------------------------------------------------------
(* Alpine versions: tokenize and Ord for AlpineVersion                     *)

Digits == {"0", "1", "2", "3", "4", "5", "6", "7", "8", "9"}
Letters == {"a", "b", "c", "d", "e", "f", "g", "h", "i", "j", "k", "l", "m",
            "n", "o", "p", "q", "r", "s", "t", "u", "v", "w", "x", "y", "z"}

\* The byte of each character the model's version strings use.
CharCode(ch) ==
    CASE ch = " " -> 32 [] ch = "+" -> 43 [] ch = ":" -> 58 [] ch = "~" -> 126
      [] ch = "-" -> 45 [] ch = "." -> 46
      [] ch = "0" -> 48 [] ch = "1" -> 49 [] ch = "2" -> 50 [] ch = "3" -> 51
      [] ch = "4" -> 52 [] ch = "5" -> 53 [] ch = "6" -> 54 [] ch = "7" -> 55
      [] ch = "8" -> 56 [] ch = "9" -> 57
      [] ch = "_" -> 95
      [] ch = "a" -> 97 [] ch = "b" -> 98 [] ch = "c" -> 99 [] ch = "e" -> 101
      [] ch = "g" -> 103 [] ch = "h" -> 104 [] ch = "i" -> 105 [] ch = "l" -> 108
      [] ch = "p" -> 112 [] ch = "r" -> 114 [] ch = "s" -> 115 [] ch = "t" -> 116
      [] ch = "v" -> 118 [] ch = "x" -> 120
      [] OTHER -> 122

\* str::cmp: byte-wise lexicographic order.
RECURSIVE StrCmp(_, _)
StrCmp(a, b) ==
    IF a = <<>> /\ b = <<>> THEN "Equal"
    ELSE IF a = <<>> THEN "Less"
    ELSE IF b = <<>> THEN "Greater"
    ELSE IF CharCode(Head(a)) < CharCode(Head(b)) THEN "Less"
    ELSE IF CharCode(Head(a)) > CharCode(Head(b)) THEN "Greater"
    ELSE StrCmp(Tail(a), Tail(b))

\* str::parse::<u64>() of a digit run (the model's runs are far below 2^64,
\* where the code's unwrap_or(0) would apply).
RECURSIVE NumVal(_)
NumVal(s) ==
    IF s = <<>> THEN 0
    ELSE 10 * NumVal(SubSeq(s, 1, Len(s) - 1)) + (CharCode(s[Len(s)]) - 48)

IntCmp(a, b) == IF a < b THEN "Less" ELSE IF a > b THEN "Greater" ELSE "Equal"

\* SuffixType's derived order: Alpha < Beta < Pre < Rc < None < Patch < Rev < Git < Svn < Cvs < Hg.
SuffixNone == 4
SuffixRank(s) ==
    CASE s = <<"a", "l", "p", "h", "a">> -> 0
      [] s = <<"b", "e", "t", "a">> -> 1
      [] s = <<"p", "r", "e">> -> 2
      [] s = <<"r", "c">> -> 3
      [] s = <<"p">> -> 5
      [] s = <<"r">> -> 6
      [] s = <<"g", "i", "t">> -> 7
      [] s = <<"s", "v", "n">> -> 8
      [] s = <<"c", "v", "s">> -> 9
      [] s = <<"h", "g">> -> 10
      [] OTHER -> -1

NumTok(s) == [k |-> "Num", s |-> s, t |-> -1]
StrTok(s) == [k |-> "Str", s |-> s, t |-> -1]
SuffixTok(t) == [k |-> "Suffix", s |-> <<>>, t |-> t]

\* "Push the current token if any".
Flush(toks, cur, isd) ==
    IF cur = <<>> THEN toks
    ELSE Append(toks, IF isd = "digit" THEN NumTok(cur) ELSE StrTok(cur))

\* The first index from i on that holds no alphabetic character.
RECURSIVE AlphaEnd(_, _)
AlphaEnd(s, i) ==
    IF i <= Len(s) /\ s[i] \in Letters THEN AlphaEnd(s, i + 1) ELSE i

\* One turn of the loop at index i: the next index, the current token, its
\* kind (is_digit: "digit", "str", or "none" for no current token) and the
\* tokens pushed so far.
TokStep(s, i, cur, isd, toks) ==
    IF s[i] = "_" THEN
        LET j == AlphaEnd(s, i + 1)
            suffix == SubSeq(s, i + 1, j - 1)
            tok == IF SuffixRank(suffix) >= 0 THEN SuffixTok(SuffixRank(suffix))
                   ELSE StrTok(<<"_">> \o suffix)
        IN [i |-> j, cur |-> <<>>, isd |-> "none", toks |-> Append(Flush(toks, cur, isd), tok)]
    ELSE IF s[i] = "-" /\ i + 1 <= Len(s) /\ s[i + 1] = "r" THEN
        [i |-> i + 2, cur |-> <<>>, isd |-> "none",
         toks |-> Append(Flush(toks, cur, isd), StrTok(<<"-", "r">>))]
    ELSE
        LET d == IF s[i] \in Digits THEN "digit" ELSE "str" IN
        IF isd = d THEN [i |-> i + 1, cur |-> Append(cur, s[i]), isd |-> isd, toks |-> toks]
        ELSE IF isd # "none"
        THEN [i |-> i + 1, cur |-> <<s[i]>>, isd |-> d, toks |-> Flush(toks, cur, isd)]
        ELSE [i |-> i + 1, cur |-> Append(cur, s[i]), isd |-> d, toks |-> toks]

RECURSIVE TokFrom(_, _, _, _, _)
TokNext(s, n) == TokFrom(s, n.i, n.cur, n.isd, n.toks)

TokFrom(s, i, cur, isd, toks) ==
    IF i > Len(s) THEN Flush(toks, cur, isd)
    ELSE TokNext(s, TokStep(s, i, cur, isd, toks))

tokenize(version) == TokFrom(version, 1, <<>>, "none", <<>>)

\* One step of the comparison loop on two present tokens: an Ordering, or
\* "Equal" for `continue`.
TokCmp(a, b, i) ==
    IF a.k = "Num" /\ b.k = "Num" THEN
        IF i # 1 /\ (Head(a.s) = "0" \/ Head(b.s) = "0") THEN StrCmp(a.s, b.s)
        ELSE IntCmp(NumVal(a.s), NumVal(b.s))
    ELSE IF a.k = "Str" /\ b.k = "Str" THEN StrCmp(a.s, b.s)
    ELSE IF a.k = "Suffix" /\ b.k = "Suffix" THEN IntCmp(a.t, b.t)
    ELSE IF a.k = "Suffix" /\ a.t < SuffixNone THEN "Less"
    ELSE IF b.k = "Suffix" /\ b.t < SuffixNone THEN "Greater"
    ELSE IF a.k = "Num" THEN "Greater"             \* Num vs Str, Num vs Suffix
    ELSE IF b.k = "Num" THEN "Less"                \* Str vs Num, Suffix vs Num
    ELSE IF a.k = "Str" THEN "Greater"             \* Str vs Suffix
    ELSE "Less"                                    \* Suffix vs Str

RECURSIVE TokensCmp(_, _, _)
\* c is the Ordering of the tokens at i: the loop returns it or goes on.
TokensNext(ta, tb, i, c) == IF c = "Equal" THEN TokensCmp(ta, tb, i + 1) ELSE c

TokensCmp(ta, tb, i) ==
    IF i > Len(ta) /\ i > Len(tb) THEN "Equal"
    ELSE IF i > Len(ta) THEN
        IF tb[i].k = "Suffix" /\ tb[i].t < SuffixNone THEN "Greater" ELSE "Less"
    ELSE IF i > Len(tb) THEN
        IF ta[i].k = "Suffix" /\ ta[i].t < SuffixNone THEN "Less" ELSE "Greater"
    ELSE TokensNext(ta, tb, i, TokCmp(ta[i], tb[i], i))

\* impl Ord for AlpineVersion.
AlpineCmp(a, b) ==
    IF a = <<>> /\ b = <<>> THEN "Equal"
    ELSE IF a = <<>> THEN "Less"
    ELSE IF b = <<>> THEN "Greater"
    ELSE TokensCmp(tokenize(a), tokenize(b), 1)

-----------------------------------------------------------------------------
(* Debian versions: split, tokenize and Ord for DebianVersion              *)

\* str::find and str::rfind of a character: its first and its last index, 0
\* when the string does not hold it.
Find(s, ch) ==
    IF \E i \in DOMAIN s : s[i] = ch
    THEN CHOOSE i \in DOMAIN s : s[i] = ch /\ \A j \in 1..(i - 1) : s[j] # ch
    ELSE 0
RFind(s, ch) ==
    IF \E i \in DOMAIN s : s[i] = ch
    THEN CHOOSE i \in DOMAIN s : s[i] = ch /\ \A j \in (i + 1)..Len(s) : s[j] # ch
    ELSE 0

\* str::trim, on strings whose only whitespace is the space.
RECURSIVE Trim(_)
Trim(s) ==
    IF s # <<>> /\ Head(s) = " " THEN Trim(Tail(s))
    ELSE IF s # <<>> /\ s[Len(s)] = " " THEN Trim(SubSeq(s, 1, Len(s) - 1))
    ELSE s

\* str::parse::<u64>().unwrap_or(0): digits, after an optional "+".
ParseU64(s) ==
    LET digits == IF s # <<>> /\ Head(s) = "+" THEN Tail(s) ELSE s IN
    IF digits # <<>> /\ \A i \in DOMAIN digits : digits[i] \in Digits THEN NumVal(digits) ELSE 0

\* split: (epoch, upstream, debian_revision).
SplitRevision(epoch, rest, pos) ==
    IF pos > 0
    THEN [epoch |-> epoch, upstream |-> SubSeq(rest, 1, pos - 1),
          debian |-> SubSeq(rest, pos + 1, Len(rest))]
    ELSE [epoch |-> epoch, upstream |-> rest, debian |-> <<"0">>]
SplitEpoch(s, pos) ==
    IF pos > 0
    THEN SplitRevision(ParseU64(SubSeq(s, 1, pos - 1)), SubSeq(s, pos + 1, Len(s)),
                       RFind(SubSeq(s, pos + 1, Len(s)), "-"))
    ELSE SplitRevision(0, s, RFind(s, "-"))
split(version) == SplitEpoch(Trim(version), Find(Trim(version), ":"))

\* Token::Num(u64) and Token::Str(String).
DebNum(n) == [k |-> "Num", n |-> n, s |-> <<>>]
DebStr(str) == [k |-> "Str", n |-> 0, s |-> str]

\* The first index from i on whose character is a digit or not, unlike d.
RECURSIVE RunEnd(_, _, _)
RunEnd(s, i, d) ==
    IF i <= Len(s) /\ (s[i] \in Digits) = d THEN RunEnd(s, i + 1, d) ELSE i

\* The runs of digits and of other characters from index i on, as tokens.
RECURSIVE Runs(_, _)
RunFrom(s, i, j) ==
    <<IF s[i] \in Digits THEN DebNum(ParseU64(SubSeq(s, i, j - 1)))
      ELSE DebStr(SubSeq(s, i, j - 1))>> \o Runs(s, j)
Runs(s, i) == IF i > Len(s) THEN <<>> ELSE RunFrom(s, i, RunEnd(s, i, s[i] \in Digits))

\* tokenize of pubgrub_debian: an empty Str token first when the component
\* begins with a digit.
debian_tokenize(version) ==
    (IF version # <<>> /\ Head(version) \in Digits THEN <<DebStr(<<>>)>> ELSE <<>>)
        \o Runs(version, 1)

\* compare_str_token gone wrong: the bytes decide, the tilde like any other.
compare_bytes(a, b) == StrCmp(a, b)

RECURSIVE compare_str_token(_, _)
compare_str_token(a, b) ==
    IF a = <<>> /\ b = <<>> THEN "Equal"
    ELSE IF a = <<>> THEN (IF Head(b) = "~" THEN "Greater" ELSE "Less")
    ELSE IF b = <<>> THEN (IF Head(a) = "~" THEN "Less" ELSE "Greater")
    ELSE IF Head(a) = Head(b) THEN compare_str_token(Tail(a), Tail(b))
    ELSE IF Head(a) = "~" THEN "Less"
    ELSE IF Head(b) = "~" THEN "Greater"
    ELSE IF (Head(a) \in Letters) # (Head(b) \in Letters)
    THEN (IF Head(a) \in Letters THEN "Less" ELSE "Greater")
    ELSE IntCmp(CharCode(Head(a)), CharCode(Head(b)))

compare_tokens(a, b) ==
    IF a.k = "Num" /\ b.k = "Num" THEN IntCmp(a.n, b.n)
    ELSE IF a.k = "Str" /\ b.k = "Str" THEN compare_str_token(a.s, b.s)
    ELSE IF a.k = "Num" THEN "Greater"
    ELSE "Less"

\* A token that faces the end of the other vector.
StartsWithTilde(t) == t.k = "Str" /\ t.s # <<>> /\ Head(t.s) = "~"

\* compare_token_vecs from index i on: "None" when no pair of tokens differs.
RECURSIVE compare_token_vecs(_, _, _)
VecsNext(tokens1, tokens2, i, ord) ==
    IF ord = "Equal" THEN compare_token_vecs(tokens1, tokens2, i + 1) ELSE ord
compare_token_vecs(tokens1, tokens2, i) ==
    IF i > Len(tokens1) /\ i > Len(tokens2) THEN "None"
    ELSE IF i > Len(tokens1)
    THEN (IF StartsWithTilde(tokens2[i]) THEN "Greater" ELSE "Less")
    ELSE IF i > Len(tokens2)
    THEN (IF StartsWithTilde(tokens1[i]) THEN "Less" ELSE "Greater")
    ELSE VecsNext(tokens1, tokens2, i, compare_tokens(tokens1[i], tokens2[i]))

\* impl Ord for DebianVersion.
RevisionCmp(ord) == IF ord # "None" THEN ord ELSE "Equal"
UpstreamCmp(ord, s1, s2) ==
    IF ord # "None" THEN ord
    ELSE RevisionCmp(compare_token_vecs(debian_tokenize(s1.debian),
                                        debian_tokenize(s2.debian), 1))
SplitCmp(s1, s2) ==
    IF s1.epoch # s2.epoch THEN IntCmp(s1.epoch, s2.epoch)
    ELSE UpstreamCmp(compare_token_vecs(debian_tokenize(s1.upstream),
                                        debian_tokenize(s2.upstream), 1), s1, s2)
DebianCmp(a, b) == SplitCmp(split(a), split(b))

-----------------------------------------------------------------------------
(* OPAM versions, ranges and packages                                      *)

\* The OPAM version strings of the model, in OpamVersion's order (on these
\* strings the digit/non-digit comparison coincides with the listing below).
OpamOrder ==
    <<"", "1", "2", "alpine", "arm32", "arm64", "cygwin", "debian", "dragonfly",
      "false", "freebsd", "haiku", "lhs", "linux", "macos", "netbsd", "openbsd",
      "pkgA", "pkgB", "ppc32", "ppc64", "rhs", "true", "win32", "x86_32", "x86_64">>

OV == Range(OpamOrder)

OpamRank(v) == CHOOSE i \in 1..Len(OpamOrder) : OpamOrder[i] = v

\* Range<OpamVersion>, by extension over OV.
RangeFull == OV
RangeSingleton(v) == {v}

RelOps == {"Eq", "Neq", "Lt", "Leq", "Gt", "Geq"}

negate_relop(relop) ==
    CASE relop = "Eq" -> "Neq" [] relop = "Neq" -> "Eq"
      [] relop = "Lt" -> "Geq" [] relop = "Geq" -> "Lt"
      [] relop = "Leq" -> "Gt" [] relop = "Gt" -> "Leq"

relop_to_range(relop, ver) ==
    CASE relop = "Eq" -> {ver}
      [] relop = "Neq" -> OV \ {ver}
      [] relop = "Lt" -> {x \in OV : OpamRank(x) < OpamRank(ver)}
      [] relop = "Leq" -> {x \in OV : OpamRank(x) <= OpamRank(ver)}
      [] relop = "Gt" -> {x \in OV : OpamRank(x) > OpamRank(ver)}
      [] relop = "Geq" -> {x \in OV : OpamRank(x) >= OpamRank(ver)}

\* VersionFormula. Every variant is a record of one shape; args holds the
\* two operands of And, Or and Comparator.
FVersion(rng) == [t |-> "Version", op |-> "", v |-> "", rng |-> rng, args |-> <<>>]
FVariable(v) == [t |-> "Variable", op |-> "", v |-> v, rng |-> {}, args |-> <<>>]
FNot(v) == [t |-> "Not", op |-> "", v |-> v, rng |-> {}, args |-> <<>>]
FLit(s) == [t |-> "Lit", op |-> "", v |-> s, rng |-> {}, args |-> <<>>]
FAnd(l, r) == [t |-> "And", op |-> "", v |-> "", rng |-> {}, args |-> <<l, r>>]
FOr(l, r) == [t |-> "Or", op |-> "", v |-> "", rng |-> {}, args |-> <<l, r>>]
FCmp(relop, l, r) == [t |-> "Comparator", op |-> relop, v |-> "", rng |-> {}, args |-> <<l, r>>]
\* The outcome of a negate_formula call that panicked.
FPanic == [t |-> "PANIC", op |-> "", v |-> "", rng |-> {}, args |-> <<>>]

\* PackageFormula: Base{name, formula}, Depext{names, formula},
\* ConflictClass{name, package} (names = <<name, package>>), Or and And.
PFBase(name, f) == [t |-> "Base", names |-> <<name>>, f |-> <<f>>, args |-> <<>>]
PFDepext(names, f) == [t |-> "Depext", names |-> names, f |-> <<f>>, args |-> <<>>]
PFConflictClass(name, package) ==
    [t |-> "ConflictClass", names |-> <<name, package>>, f |-> <<>>, args |-> <<>>]
PFOr(l, r) == [t |-> "Or", names |-> <<>>, f |-> <<>>, args |-> <<l, r>>]
PFAnd(l, r) == [t |-> "And", names |-> <<>>, f |-> <<>>, args |-> <<l, r>>]

\* OpamPackage. base is an Option (<<>> or <<p>>); kids are Root's children,
\* pairs <<package, range>>; pf are Lor's two package formulas.
Pkg(k, names, f, base, kids, pf) ==
    [k |-> k, names |-> names, f |-> f, base |-> base, kids |-> kids, pf |-> pf]
OBase(name) == Pkg("Base", <<name>>, <<>>, <<>>, <<>>, <<>>)
OVar(var) == Pkg("Var", <<var>>, <<>>, <<>>, <<>>, <<>>)
OConflictClass(name) == Pkg("ConflictClass", <<name>>, <<>>, <<>>, <<>>, <<>>)
\* The Depext variant carries its filter: BabelIndex reads Depext{names, formula}.
ODepext(names, f) == Pkg("Depext", names, <<f>>, <<>>, <<>>, <<>>)
OFormula(base, f) == Pkg("Formula", <<>>, <<f>>, <<base>>, <<>>, <<>>)
OProxy(optBase, f) == Pkg("Proxy", <<>>, <<f>>, optBase, <<>>, <<>>)
OLor(lhs, rhs) == Pkg("Lor", <<>>, <<>>, <<>>, <<>>, <<lhs, rhs>>)
ORoot(kids) == Pkg("Root", <<>>, <<>>, <<>>, kids, <<>>)

-----------------------------------------------------------------------------
(* DependencyConstraints and the outcome of a provider call                *)

EmptyMap == [x \in {} |-> {}]

MapInsert(m, key, val) ==
    [x \in DOMAIN m \cup {key} |-> IF x = key THEN val ELSE m[x]]

\* merge_constraints: a package constrained on both sides gets the intersection.
merge_constraints(left, right) ==
    [x \in DOMAIN left \cup DOMAIN right |->
        IF x \in DOMAIN left /\ x \in DOMAIN right THEN left[x] \cap right[x]
        ELSE IF x \in DOMAIN left THEN left[x] ELSE right[x]]

\* A call's outcome: ok is FALSE when it panicked; avail is FALSE for
\* Dependencies::Unavailable; deps is the returned map;
\* vins and cins are the pairs it inserted into VARIABLE_CACHE and
\* CONFLICT_CLASS_CACHE before returning or panicking.
Ret(deps, vins, cins) ==
    [ok |-> TRUE, avail |-> TRUE, deps |-> deps, vins |-> vins, cins |-> cins]
Panic(vins, cins) ==
    [ok |-> FALSE, avail |-> FALSE, deps |-> EmptyMap, vins |-> vins, cins |-> cins]
\* Dependencies::Unavailable.
Unavailable == [ok |-> TRUE, avail |-> FALSE, deps |-> EmptyMap, vins |-> {}, cins |-> {}]

\* Two calls in sequence, their maps merged: the second is not made when the
\* first panics.
MergeRet(a, b) ==
    IF ~a.ok THEN a
    ELSE IF ~b.ok THEN Panic(a.vins \cup b.vins, a.cins \cup b.cins)
    ELSE Ret(merge_constraints(a.deps, b.deps), a.vins \cup b.vins, a.cins \cup b.cins)

\* WithBase gone wrong: the base is never constrained.
WithoutBase(optBase, rng) == EmptyMap

\* if let Some(base) = base { map.insert(base.clone(), rng) }
WithBase(optBase, rng) ==
    IF optBase = <<>> THEN EmptyMap ELSE MapInsert(EmptyMap, optBase[1], rng)

-----------------------------------------------------------------------------
(* The OPAM formula compiler                                               *)

\* The And and Or arms of negate_formula, l and r being the negated operands.
NegateBinary(expr, l, r) ==
    IF expr.args[1].t = "Version" THEN r
    ELSE IF expr.args[2].t = "Version" THEN l
    ELSE IF l = FPanic \/ r = FPanic THEN FPanic
    ELSE IF expr.t = "And" THEN FOr(l, r) ELSE FAnd(l, r)

RECURSIVE negate_formula(_)
negate_formula(expr) ==
    CASE expr.t = "Version" -> FPanic
      [] expr.t = "Variable" -> FNot(expr.v)
      [] expr.t = "Not" -> FVariable(expr.v)
      [] expr.t \in {"And", "Or"} ->
            NegateBinary(expr, negate_formula(expr.args[1]), negate_formula(expr.args[2]))
      [] expr.t = "Comparator" -> FCmp(negate_relop(expr.op), expr.args[1], expr.args[2])
      [] expr.t = "Lit" -> expr
      [] OTHER -> FPanic

RECURSIVE from_version_formula(_, _)
from_version_formula(base, formula) ==
    CASE formula.t = "Version" -> Ret(WithBase(base, formula.rng), {}, {})
      [] formula.t = "Variable" ->
            Ret(MapInsert(WithBase(base, RangeFull), OVar(formula.v), RangeSingleton("true")), {}, {})
      [] formula.t = "Not" ->
            Ret(MapInsert(WithBase(base, RangeFull), OVar(formula.v), RangeSingleton("false")), {}, {})
      [] formula.t = "Or" ->
            Ret(MapInsert(EmptyMap, OProxy(base, formula), RangeFull), {}, {})
      [] formula.t = "And" ->
            MergeRet(from_version_formula(base, formula.args[1]),
                     from_version_formula(base, formula.args[2]))
      [] formula.t = "Comparator" ->
            LET lhs == formula.args[1]
                rhs == formula.args[2]
                map == WithBase(base, RangeFull)
            IN IF lhs.t = "Lit" /\ rhs.t = "Variable" THEN
                   Ret(MapInsert(map, OVar(rhs.v), relop_to_range(formula.op, lhs.v)),
                       {<<rhs.v, lhs.v>>}, {})
               ELSE IF lhs.t = "Variable" /\ rhs.t = "Lit" THEN
                   Ret(MapInsert(map, OVar(lhs.v), relop_to_range(formula.op, rhs.v)),
                       {<<lhs.v, rhs.v>>}, {})
               ELSE IF formula.op \in {"Eq", "Neq"} THEN
                   Ret(MapInsert(map, OProxy(base, formula), RangeFull), {}, {})
               ELSE Panic({}, {})
      [] OTHER -> Panic({}, {})     \* Lit: "invalid literal"; a panicked negation

\* The arms of from_proxy_formula: lhs and rhs are the operands compiled,
\* nlhs and nrhs their negations compiled.
ProxyArms(version, formula, lhs, rhs, nlhs, nrhs) ==
    CASE formula.t = "Or" ->
            IF version = "lhs" THEN lhs
            ELSE IF version = "rhs" THEN rhs
            ELSE Panic({}, {})
      [] formula.t = "Comparator" /\ formula.op = "Eq" ->
            IF version = "lhs" THEN MergeRet(lhs, rhs)
            ELSE IF version = "rhs" THEN MergeRet(nlhs, nrhs)
            ELSE Panic({}, {})
      [] formula.t = "Comparator" /\ formula.op = "Neq" ->
            IF version = "lhs" THEN MergeRet(lhs, nrhs)
            ELSE IF version = "rhs" THEN MergeRet(nlhs, rhs)
            ELSE Panic({}, {})
      [] OTHER -> Panic({}, {})

from_proxy_formula(base, version, formula) ==
    IF formula.t \in {"Or", "Comparator"}
    THEN ProxyArms(version, formula,
                   from_version_formula(base, formula.args[1]),
                   from_version_formula(base, formula.args[2]),
                   from_version_formula(base, negate_formula(formula.args[1])),
                   from_version_formula(base, negate_formula(formula.args[2])))
    ELSE Panic({}, {})


-----------------------------------------------------------------------------
(* The OPAM repository the indices read (a fixture: opam files on disk)    *)

DebianFamily == FCmp("Eq", FVariable("os-family"), FLit("debian"))
AlpineDistribution == FCmp("Eq", FVariable("os-distribution"), FLit("alpine"))

\* conf-gmp: depexts ["libgmp-dev"] {os-family = "debian"} and
\* ["gmp-dev"] {os-distribution = "alpine"}; app.2 depends on conf-gmp and,
\* under with-test, on tool; app.1 on pkgA | pkgB, which declare conflict
\* class "cls"; bad on tool {with-test < with-doc}; or-error on
\* pkgA {= 2} | pkgB {= 2}, versions that neither has; opt on
\* tool {with-test & with-doc}.
Repo ==
    [n \in {"conf-gmp", "app", "tool", "pkgA", "pkgB", "bad", "or-error", "opt"} |->
        CASE n = "conf-gmp" ->
                [v \in {"1"} |-> <<PFDepext(<<"libgmp-dev">>, DebianFamily),
                                  PFDepext(<<"gmp-dev">>, AlpineDistribution)>>]
          [] n = "app" ->
                [v \in {"1", "2"} |->
                    IF v = "2"
                    THEN <<PFBase("conf-gmp", FVersion(RangeFull)),
                           PFBase("tool", FVariable("with-test"))>>
                    ELSE <<PFOr(PFBase("pkgA", FVersion(RangeFull)),
                                PFBase("pkgB", FVersion(RangeFull)))>>]
          [] n = "tool" -> [v \in {"1"} |-> <<>>]
          [] n = "bad" ->
                [v \in {"1"} |->
                    <<PFBase("tool", FCmp("Lt", FVariable("with-test"), FVariable("with-doc")))>>]
          [] n = "or-error" ->
                [v \in {"1"} |-> <<PFOr(PFBase("pkgA", FVersion({"2"})),
                                        PFBase("pkgB", FVersion({"2"})))>>]
          [] n = "opt" ->
                [v \in {"1"} |->
                    <<PFBase("tool", FAnd(FVariable("with-test"), FVariable("with-doc")))>>]
          [] n = "pkgA" -> [v \in {"1"} |-> <<PFConflictClass("cls", "pkgA")>>]
          [] n = "pkgB" -> [v \in {"1"} |-> <<PFConflictClass("cls", "pkgB")>>]]

\* OpamIndex::available_versions: the versions of the package directory,
\* newest first.
OpamAvailableVersions(name) ==
    IF name \notin DOMAIN Repo THEN <<>>
    ELSE SeqFilter(Reverse(OpamOrder), DOMAIN Repo[name])

-----------------------------------------------------------------------------
(* OpamIndex: list_versions, choose_version, get_dependencies              *)

Listed(vs) == [ok |-> TRUE, vs |-> vs]
ListPanic == [ok |-> FALSE, vs |-> <<>>]

OsVersions ==
    <<"linux", "macos", "win32", "cygwin", "freebsd", "openbsd", "netbsd", "dragonfly">>
ArchVersions ==
    <<"arm64", "x86_32", "x86_64", "ppc32", "ppc64", "arm32", "arm64">>

\* VariableValues gone wrong: a variable lists false and true, whatever the
\* cache holds.
BooleanValues(var) == <<"false", "true">>

\* match VARIABLE_CACHE.lock().unwrap().get(var): the cached values in the
\* order the set iterates, or false and true for a variable without entry.
VariableValues(var) ==
    IF var \in DOMAIN varCache THEN varCache[var] ELSE <<"false", "true">>

OpamListVersions(package) ==
    CASE package.k \in {"Root", "Depext"} -> Listed(<<"">>)
      [] package.k = "Base" -> Listed(OpamAvailableVersions(package.names[1]))
      [] package.k = "ConflictClass" ->
            IF package.names[1] \in DOMAIN ccCache
            THEN Listed(ccCache[package.names[1]])
            ELSE ListPanic                          \* .get(pkg).unwrap()
      [] package.k = "Lor" -> Listed(<<"lhs", "rhs">>)
      [] package.k = "Var" ->
            IF package.names[1] = "os" THEN Listed(OsVersions)
            ELSE IF package.names[1] = "arch" THEN Listed(ArchVersions)
            ELSE Listed(VariableValues(package.names[1]))
      [] package.k = "Formula" -> Listed(<<"false", "true">>)
      [] package.k = "Proxy" -> Listed(<<"lhs", "rhs">>)

\* FirstIn gone wrong: the last listed version of the set.
LastIn(vs, set) ==
    LET hits == SeqFilter(vs, set) IN IF hits = <<>> THEN <<>> ELSE <<hits[Len(hits)]>>

\* .filter(|v| range.contains(v)).next(): an Option (<<>> or <<v>>).
FirstIn(vs, set) ==
    LET hits == SeqFilter(vs, set) IN IF hits = <<>> THEN <<>> ELSE <<Head(hits)>>

\* The first version of the listing l in the set; ok is FALSE when
\* list_versions panicked.
ChooseIn(l, set) ==
    IF l.ok THEN [ok |-> TRUE, v |-> FirstIn(l.vs, set)] ELSE [ok |-> FALSE, v |-> <<>>]

OpamChooseVersion(package, range) == ChooseIn(OpamListVersions(package), range)

\* ClassMember gone wrong: the class accepts every member.
ClassAnyMember(package) == RangeFull

\* Range::singleton(OpamVersion(package)): the version of a conflict class
\* that its declarer asks for.
ClassMember(package) == RangeSingleton(package)

RECURSIVE from_formula(_)
from_formula(formula) ==
    CASE formula.t = "Base" ->
            IF formula.f[1].t = "Version"
            THEN Ret(MapInsert(EmptyMap, OBase(formula.names[1]), formula.f[1].rng), {}, {})
            ELSE Ret(MapInsert(EmptyMap, OFormula(OBase(formula.names[1]), formula.f[1]),
                               RangeFull), {}, {})
      [] formula.t = "Depext" ->
            IF formula.f[1].t = "Version"
            THEN Ret(MapInsert(EmptyMap, ODepext(formula.names, formula.f[1]),
                               formula.f[1].rng), {}, {})
            ELSE Ret(MapInsert(EmptyMap,
                               OFormula(ODepext(formula.names, formula.f[1]), formula.f[1]),
                               RangeFull), {}, {})
      [] formula.t = "ConflictClass" ->
            Ret(MapInsert(EmptyMap, OConflictClass(formula.names[1]),
                          ClassMember(formula.names[2])),
                {}, {<<formula.names[1], formula.names[2]>>})
      [] formula.t = "Or" ->
            Ret(MapInsert(EmptyMap, OLor(formula.args[1], formula.args[2]), RangeFull), {}, {})
      [] formula.t = "And" ->
            MergeRet(from_formula(formula.args[1]), from_formula(formula.args[2]))

RECURSIVE from_formulas(_)
from_formulas(formulas) ==
    IF formulas = <<>> THEN Ret(EmptyMap, {}, {})
    ELSE MergeRet(from_formulas(SubSeq(formulas, 1, Len(formulas) - 1)),
                  from_formula(formulas[Len(formulas)]))

\* deps.into_iter().cloned().collect(): a later child replaces an earlier
\* one of the same package.
RECURSIVE KidsMap(_)
KidsMap(kids) ==
    IF kids = <<>> THEN EmptyMap
    ELSE MapInsert(KidsMap(SubSeq(kids, 1, Len(kids) - 1)),
                   kids[Len(kids)][1], kids[Len(kids)][2])

\* Range::as_singleton (the model's Root children carry a singleton or the
\* full range).
AsSingleton(range) == IF Cardinality(range) = 1 THEN <<CHOOSE v \in range : TRUE>> ELSE <<>>

\* LorSide gone wrong: both versions select the left side.
LorLeft(pf, version) ==
    IF version \in {"lhs", "rhs"} THEN <<pf[1]>> ELSE <<>>

\* The side of a Lor that a version selects: an Option, None for a version
\* that is neither "lhs" nor "rhs".
LorSide(pf, version) ==
    IF version = "lhs" THEN <<pf[1]>>
    ELSE IF version = "rhs" THEN <<pf[2]>>
    ELSE <<>>

\* The Lor arm: the selected side compiled, or the panic on another version.
LorDeps(side) == IF side = <<>> THEN Panic({}, {}) ELSE from_formula(side[1])

OpamGetDependencies(package, version) ==
    CASE package.k = "Root" ->
            Ret(KidsMap(package.kids),
                {<<package.kids[i][1].names[1], AsSingleton(package.kids[i][2])[1]>> :
                    i \in {j \in DOMAIN package.kids :
                              /\ package.kids[j][1].k = "Var"
                              /\ AsSingleton(package.kids[j][2]) # <<>>}},
                {})
      [] package.k = "Base" ->
            IF package.names[1] \in DOMAIN Repo /\ version \in DOMAIN Repo[package.names[1]]
            THEN from_formulas(Repo[package.names[1]][version])
            ELSE Panic({}, {})                      \* parse_dependencies(..).unwrap()
      [] package.k = "ConflictClass" -> Ret(EmptyMap, {}, {})
      [] package.k = "Lor" -> LorDeps(LorSide(package.pf, version))
      [] package.k = "Formula" ->
            IF version = "true" THEN from_version_formula(package.base, package.f[1])
            ELSE IF version = "false"
            THEN from_version_formula(<<>>, negate_formula(package.f[1]))
            ELSE Panic({}, {})
      [] package.k = "Proxy" -> from_proxy_formula(package.base, version, package.f[1])
      [] package.k \in {"Var", "Depext"} -> Ret(EmptyMap, {}, {})

\* CacheAfter gone wrong: nothing is inserted.
CacheKept(cache, ins) == {cache}

\* HashSet::insert gone wrong: the entry holds the inserted value only.
RECURSIVE CacheReplaced(_, _)
CacheReplaced(cache, ins) ==
    IF ins = {} THEN {cache}
    ELSE LET p == CHOOSE x \in ins : TRUE
         IN CacheReplaced(MapInsert(cache, p[1], <<p[2]>>), ins \ {p})

\* HashSet::insert of the pairs ins into a cache, one after the other: a
\* set that gains a value may afterwards iterate in any order; a set that
\* gains none keeps its own.
RECURSIVE CacheAfter(_, _)
CacheAfter(cache, ins) ==
    IF ins = {} THEN {cache}
    ELSE LET p == CHOOSE x \in ins : TRUE
             old == IF p[1] \in DOMAIN cache THEN cache[p[1]] ELSE <<>>
             orders == IF p[2] \in Range(old) THEN {old} ELSE Orders(Range(old) \cup {p[2]})
         IN UNION {CacheAfter(MapInsert(cache, p[1], o), ins \ {p}) : o \in orders}


-----------------------------------------------------------------------------
(* AlpineIndex: packages is a map from names to BTreeMap<AlpineVersion, _>  *)

\* Range<AlpineVersion>: "Full", or the versions that stand in relation op
\* to v; contains compares with AlpineVersion's Ord.
AlpineRange(op, v) == [op |-> op, v |-> v]
AlpineFull == AlpineRange("Full", <<>>)

\* c is the Ordering of a version against the bound of the range.
OrderIn(op, c) ==
    CASE op = "Full" -> TRUE
      [] op = "Eq" -> c = "Equal"
      [] op = "Neq" -> c # "Equal"
      [] op = "Lt" -> c = "Less"
      [] op = "Leq" -> c # "Greater"
      [] op = "Gt" -> c = "Greater"
      [] op = "Geq" -> c # "Less"

AlpineContains(range, v) == OrderIn(range.op, AlpineCmp(v, range.v))

\* BTreeMap::insert on a map held as its entries in key order (a single
\* leaf, searched linearly): an entry whose key compares Equal keeps its
\* key and takes the new value; otherwise the entry goes before the first
\* greater key.
RECURSIVE BTreeInsert(_, _, _)
\* c is the Ordering of version against the first key.
BTreeInsertAt(entries, version, dependencies, c) ==
    IF c = "Greater"
    THEN <<Head(entries)>> \o BTreeInsert(Tail(entries), version, dependencies)
    ELSE IF c = "Equal"
    THEN <<[key |-> Head(entries).key, deps |-> dependencies]>> \o Tail(entries)
    ELSE <<[key |-> version, deps |-> dependencies]>> \o entries

BTreeInsert(entries, version, dependencies) ==
    IF entries = <<>> THEN <<[key |-> version, deps |-> dependencies]>>
    ELSE BTreeInsertAt(entries, version, dependencies, AlpineCmp(version, Head(entries).key))

\* AlpineIndex::add_deps, on the packages map.
AlpineAddDepsTo(packages, name, version, dependencies) ==
    LET old == IF name \in DOMAIN packages THEN packages[name] ELSE <<>> IN
    [n \in DOMAIN packages \cup {name} |->
        IF n = name THEN BTreeInsert(old, version, dependencies) ELSE packages[n]]

\* AlpineIndex::available_versions: keys().rev().
AlpineAvailableVersions(package) ==
    IF package \in DOMAIN alpinePackages
    THEN Reverse([i \in DOMAIN alpinePackages[package] |-> alpinePackages[package][i].key])
    ELSE <<>>

\* AlpinePackage: Root (k = "Root") or Base(name).
AlpineListVersions(package) ==
    IF package.k = "Root" THEN <<<<>>>> ELSE AlpineAvailableVersions(package.names[1])

\* .filter(|v| range.contains(v)).next(): an Option (<<>> or <<v>>).
AlpineFirstIn(vs, range) ==
    LET hits == SelectSeq(vs, LAMBDA v : AlpineContains(range, v)) IN
    IF hits = <<>> THEN <<>> ELSE <<Head(hits)>>

AlpineChooseVersion(package, range) == AlpineFirstIn(AlpineListVersions(package), range)

\* from_dependencies: a later dependency on the same name replaces an
\* earlier one.
RECURSIVE from_dependencies(_)
from_dependencies(dependencies) ==
    IF dependencies = <<>> THEN [x \in {} |-> AlpineFull]
    ELSE LET d == dependencies[Len(dependencies)]
             m == from_dependencies(SubSeq(dependencies, 1, Len(dependencies) - 1))
         IN [x \in DOMAIN m \cup {d.name} |-> IF x = d.name THEN d.range ELSE m[x]]

\* AlpineIndex::get_dependencies of Base(pkg): avail is FALSE for
\* Dependencies::Unavailable; all_versions.get(version) looks the key up
\* with Ord.
AlpineGetDependencies(pkg, version) ==
    LET all == IF pkg \in DOMAIN alpinePackages THEN alpinePackages[pkg] ELSE <<>>
        hit == {i \in DOMAIN all : AlpineCmp(version, all[i].key) = "Equal"}
    IN IF hit = {} THEN [avail |-> FALSE, deps |-> [x \in {} |-> AlpineFull]]
       ELSE [avail |-> TRUE, deps |-> from_dependencies(all[CHOOSE i \in hit : TRUE].deps)]

-----------------------------------------------------------------------------
(* Index (src/index.rs): packages is Map<PackageName, BTreeMap<OpamVersion, Deps>> *)

\* add_deps takes a u32 version; the model keeps the number (u32 -> OpamVersion
\* is injective and monotone). new_deps is the slice as a map from names to
\* ranges; a registered version keeps its dependencies and takes the new ones.
IndexAddDepsTo(packages, package, version, new_deps) ==
    LET old == IF package \in DOMAIN packages THEN packages[package] ELSE [v \in {} |-> EmptyMap]
        deps == IF version \in DOMAIN old THEN old[version] ELSE EmptyMap
        merged == [x \in DOMAIN deps \cup DOMAIN new_deps |->
                      IF x \in DOMAIN new_deps THEN new_deps[x] ELSE deps[x]]
    IN [n \in DOMAIN packages \cup {package} |->
          IF n = package
          THEN [v \in DOMAIN old \cup {version} |-> IF v = version THEN merged ELSE old[v]]
          ELSE packages[n]]

\* The descending sequence of a set of numbers.
RECURSIVE Descending(_)
Descending(S) ==
    IF S = {} THEN <<>>
    ELSE LET m == CHOOSE x \in S : \A y \in S : y <= x IN <<m>> \o Descending(S \ {m})

\* Index::available_versions: keys().rev().
IndexAvailableVersions(package) ==
    IF package \in DOMAIN indexPackages THEN Descending(DOMAIN indexPackages[package])
    ELSE <<>>


-----------------------------------------------------------------------------
(* BabelIndex: the unified index over the OPAM, Debian and Alpine indices   *)

\* The Alpine version strings of the model, as sequences of characters.
AlpineVs == {<<"1">>, <<"0", "1">>, <<"2">>, <<"1", ".", "1">>}

\* The Debian index read from the Packages file (a fixture): for each package
\* its versions newest first, and the dependencies of each.
DebianRepo ==
    [n \in {"libgmp-dev", "libgmp10"} |->
        IF n = "libgmp-dev"
        THEN [vs |-> <<"2">>, deps |-> [v \in {"2"} |-> {"libgmp10"}]]
        ELSE [vs |-> <<"2", "1">>, deps |-> [v \in {"1", "2"} |-> {}]]]

\* BabelVersion: Opam, Debian and Platform carry a string, Alpine carries
\* an AlpineVersion, Singular is the version of Root.
BV(eco, str) == [eco |-> eco, s |-> str, a |-> <<>>]
BVA(a) == [eco |-> "Alpine", s |-> "", a |-> a]
Singular == BV("Babel", "Singular")

\* Range<BabelVersion>, by extension over the versions of the model.
BabelFull ==
    {BV("Opam", v) : v \in OV} \cup {BV("Debian", v) : v \in {"1", "2"}}
        \cup {BVA(a) : a \in AlpineVs}
        \cup {BV("Platform", v) : v \in {"debian", "alpine"}} \cup {Singular}

\* BabelPackage: Opam(p), Debian(Base), Alpine(Base), Platform(OS) and
\* Root(bkids), bkids being pairs <<package, range>>.
NoPkg == Pkg("", <<>>, <<>>, <<>>, <<>>, <<>>)
BOpam(p) == [eco |-> "Opam", p |-> p, bkids |-> <<>>]
BDebian(name) == [eco |-> "Debian", p |-> OBase(name), bkids |-> <<>>]
BAlpine(name) == [eco |-> "Alpine", p |-> OBase(name), bkids |-> <<>>]
PlatformOS == [eco |-> "Platform", p |-> NoPkg, bkids |-> <<>>]
BRoot(bkids) == [eco |-> "Root", p |-> NoPkg, bkids |-> bkids]

\* vs.into_iter().map(|(s, e)| (s.map(BabelVersion::Opam), e.map(..))): the
\* full range stays the full range; any other range is read at the versions
\* of its own ecosystem only, the only ones its package lists.
LiftOpamRange(range) ==
    IF range = RangeFull THEN BabelFull ELSE {BV("Opam", v) : v \in range}
LiftAlpineRange(range) ==
    IF range = AlpineFull THEN BabelFull
    ELSE {BVA(a) : a \in {x \in AlpineVs : AlpineContains(range, x)}}

LiftOpamDeps(deps) == [q \in {BOpam(x) : x \in DOMAIN deps} |-> LiftOpamRange(deps[q.p])]
LiftAlpineDeps(deps) ==
    [q \in {BAlpine(x) : x \in DOMAIN deps} |-> LiftAlpineRange(deps[q.p.names[1]])]

\* The outcome r of the OPAM index and of the Alpine index, as the unified
\* index returns it.
LiftOpamRet(r) ==
    IF r.ok THEN Ret(LiftOpamDeps(r.deps), r.vins, r.cins) ELSE Panic(r.vins, r.cins)
LiftAlpineRet(r) ==
    IF r.avail THEN Ret(LiftAlpineDeps(r.deps), {}, {}) ELSE Unavailable

\* contains_os_condition gone wrong: only the variable-first operand order.
RECURSIVE contains_os_variable_first(_, _)
contains_os_variable_first(formula, os_name) ==
    CASE formula.t = "Comparator" /\ formula.op = "Eq" ->
            /\ formula.args[1].t = "Variable"
            /\ formula.args[1].v \in {"os-distribution", "os-family"}
            /\ formula.args[2] = FLit(os_name)
      [] formula.t \in {"And", "Or"} ->
            \/ contains_os_variable_first(formula.args[1], os_name)
            \/ contains_os_variable_first(formula.args[2], os_name)
      [] OTHER -> FALSE

RECURSIVE contains_os_condition(_, _)
contains_os_condition(formula, os_name) ==
    CASE formula.t = "Comparator" /\ formula.op = "Eq" ->
            LET lhs == formula.args[1]
                rhs == formula.args[2]
            IN IF /\ lhs.t = "Variable"
                  /\ lhs.v \in {"os-distribution", "os-family"}
                  /\ rhs.t = "Lit"
               THEN rhs.v = os_name
               ELSE IF /\ rhs.t = "Variable"
                       /\ rhs.v \in {"os-distribution", "os-family"}
                       /\ lhs.t = "Lit"
               THEN lhs.v = os_name
               ELSE FALSE
      [] formula.t \in {"And", "Or"} ->
            \/ contains_os_condition(formula.args[1], os_name)
            \/ contains_os_condition(formula.args[2], os_name)
      [] OTHER -> FALSE

MapSeq(vs, Op(_)) == [i \in DOMAIN vs |-> Op(vs[i])]

\* LiftDebianListing gone wrong: the versions wrapped as OPAM versions.
LiftAsOpam(vs) == Listed(MapSeq(vs, LAMBDA x : BV("Opam", x)))

\* .map(|x| BabelVersion::Debian(x)) on the listing of the Debian index.
LiftDebianListing(vs) == Listed(MapSeq(vs, LAMBDA x : BV("Debian", x)))

\* .map(|x| BabelVersion::Opam(x)) on the listing of the OPAM index.
LiftOpamListing(l) ==
    IF l.ok THEN Listed(MapSeq(l.vs, LAMBDA x : BV("Opam", x))) ELSE ListPanic

BabelListVersions(package) ==
    CASE package.eco = "Root" -> Listed(<<Singular>>)
      [] package.eco = "Opam" /\ package.p.k = "Depext" ->
            Listed(<<BV("Opam", "alpine"), BV("Opam", "debian")>>)
      [] package.eco = "Opam" /\ package.p.k # "Depext" ->
            LiftOpamListing(OpamListVersions(package.p))
      [] package.eco = "Debian" ->
            IF package.p.names[1] \in DOMAIN DebianRepo
            THEN LiftDebianListing(DebianRepo[package.p.names[1]].vs)
            ELSE Listed(<<>>)
      [] package.eco = "Alpine" ->
            Listed(MapSeq(AlpineListVersions(package.p), BVA))
      [] package.eco = "Platform" ->
            Listed(<<BV("Platform", "debian"), BV("Platform", "alpine")>>)

\* BabelChooseVersion gone wrong: the first listed version, in the range or not.
BabelChooseListed(package, range) == ChooseIn(BabelListVersions(package), BabelFull)

BabelChooseVersion(package, range) == ChooseIn(BabelListVersions(package), range)

\* PlatformDeps gone wrong: every platform pins the variables of debian.
PlatformDebian(os) ==
    [q \in {BOpam(OVar("os-distribution")), BOpam(OVar("os-family")), BOpam(OVar("os"))} |->
        IF q.p.names[1] = "os" THEN {BV("Opam", "linux")} ELSE {BV("Opam", "debian")}]

PlatformDeps(os) ==
    [q \in {BOpam(OVar("os-distribution")), BOpam(OVar("os-family")), BOpam(OVar("os"))} |->
        IF q.p.names[1] = "os" THEN {BV("Opam", "linux")} ELSE {BV("Opam", os)}]

\* The Depext arm at version os: one system package of that OS per name,
\* unconstrained, when the filter names the OS.
DepextDeps(names, formula, os) ==
    IF contains_os_condition(formula, os)
    THEN [q \in {IF os = "debian" THEN BDebian(names[i]) ELSE BAlpine(names[i]) :
                    i \in DOMAIN names} |-> BabelFull]
    ELSE EmptyMap

BabelGetDependencies(package, version) ==
    CASE package.eco = "Root" -> Ret(KidsMap(package.bkids), {}, {})
      [] package.eco = "Platform" ->
            IF version.eco = "Platform" /\ version.s \in {"debian", "alpine"}
            THEN Ret(PlatformDeps(version.s), {}, {})
            ELSE Panic({}, {})
      [] package.eco = "Opam" ->
            IF version.eco # "Opam" THEN Panic({}, {})
            ELSE IF package.p.k = "Depext" THEN
                IF version.s = "debian"
                THEN Ret(DepextDeps(package.p.names, package.p.f[1], "debian"), {}, {})
                ELSE IF version.s = "alpine"
                THEN Ret(DepextDeps(package.p.names, package.p.f[1], "alpine"), {}, {})
                ELSE Ret(EmptyMap, {}, {})
            ELSE LiftOpamRet(OpamGetDependencies(package.p, version.s))
      [] package.eco = "Debian" ->
            IF version.eco # "Debian" THEN Panic({}, {})
            ELSE IF /\ package.p.names[1] \in DOMAIN DebianRepo
                    /\ version.s \in DOMAIN DebianRepo[package.p.names[1]].deps
            THEN Ret([q \in {BDebian(n) : n \in DebianRepo[package.p.names[1]].deps[version.s]}
                         |-> BabelFull], {}, {})
            ELSE Unavailable
      [] package.eco = "Alpine" ->
            IF version.eco # "Alpine" THEN Panic({}, {})
            ELSE LiftAlpineRet(AlpineGetDependencies(package.p.names[1], version.a))


-----------------------------------------------------------------------------
(* BabelVersionSet: Empty, Full, or the Range of one ecosystem             *)

\* Range<V> of an ecosystem, by extension over the versions "1" and "2" and
\* "rest", which stands for every other version: no union of singletons is
\* the full range.
RangeAtoms == {"1", "2", "rest"}

VsEmpty == [tag |-> "Empty", set |-> {}]
VsFull == [tag |-> "Full", set |-> {}]
VsOf(tag, set) == [tag |-> tag, set |-> set]
\* The outcome of a union that panicked.
VsPanic == [tag |-> "PANIC", set |-> {}]

complement(self) ==
    CASE self.tag = "Empty" -> VsFull
      [] self.tag = "Full" -> VsEmpty
      [] OTHER -> VsOf(self.tag, RangeAtoms \ self.set)

intersection(self, other) ==
    IF self.tag = "Empty" \/ other.tag = "Empty" THEN VsEmpty
    ELSE IF self.tag = "Full" THEN other
    ELSE IF other.tag = "Full" THEN self
    ELSE IF self.tag = other.tag THEN VsOf(self.tag, self.set \cap other.set)
    ELSE VsEmpty

contains(self, v) ==
    IF self.tag = "Full" THEN TRUE
    ELSE IF self.tag = v.eco THEN v.s \in self.set
    ELSE FALSE

\* (Full, s) | (s, Full) => s.clone(); (Empty, _) | (_, Empty) => Empty;
\* the sets of one ecosystem are united; any other pair panics.
union(self, other) ==
    IF self.tag = "Full" THEN other
    ELSE IF other.tag = "Full" THEN self
    ELSE IF self.tag = "Empty" \/ other.tag = "Empty" THEN VsEmpty
    ELSE IF self.tag = other.tag THEN VsOf(self.tag, self.set \cup other.set)
    ELSE VsPanic

\* impl PartialEq for BabelVersionSet: "true", "false", or "overflow" for
\* the arm `_ => self == other`, which calls eq again without end.
eq(self, other) ==
    IF self.tag = other.tag /\ self.tag \in {"Full", "Empty"} THEN "true"
    ELSE IF self.tag = "Full" \/ other.tag = "Full" THEN
        LET o == IF self.tag = "Full" THEN other ELSE self IN
        IF o.tag = "Empty" THEN "false"
        ELSE IF o.set = RangeAtoms THEN "true" ELSE "false"
    ELSE IF self.tag = "Empty" \/ other.tag = "Empty" THEN
        LET o == IF self.tag = "Empty" THEN other ELSE self IN
        IF o.set = {} THEN "true" ELSE "false"
    ELSE IF self.tag = other.tag THEN
        IF self.set = other.set THEN "true" ELSE "false"
    ELSE "overflow"

-----------------------------------------------------------------------------
(* Calls on the indices                                                    *)

\* The last call made: op names the operation and idx the index it was made
\* on; the other fields hold its arguments and its outcome.
NoVersion == BV("", "")
NoCall ==
    [op |-> "none", idx |-> "", pkg |-> BOpam(NoPkg), version |-> NoVersion,
     range |-> {}, arange |-> AlpineFull, out |-> Ret(EmptyMap, {}, {}), vs |-> ListPanic, chosen |-> <<>>,
     f |-> <<>>, prev |-> <<>>, nf |-> FPanic, sets |-> <<>>, set |-> VsEmpty,
     request |-> <<>>, response |-> <<>>, args |-> <<>>, ord |-> ""]

\* The engine's state: stack holds its decisions, each with the dependencies
\* get_dependencies returned for it; ban[i] holds the versions it has ruled
\* out after the first i - 1 decisions, as <<package, version, decisions that
\* rule it out>>; none holds the
\* pairs <<package, set>> for which choose_version returned None, which the
\* engine never asks again; grew tells that a cache has changed since the
\* resolution began; nth counts the resolutions the process has finished;
\* before holds what the caches held when the resolution began and own what
\* the resolution itself has inserted, as <<cache, key, value>>; request
\* holds the request the server is answering.
Idle ==
    [status |-> "idle", stack |-> <<>>, ban |-> <<{}>>, none |-> {}, grew |-> FALSE,
     nth |-> 0, before |-> {}, own |-> {}, request |-> <<>>]

\* The contents of the two caches, and the inserts of one call, as
\* <<cache, key, value>>.
Contents(vcache, ccache) ==
    UNION {{<<"var", k, x>> : x \in Range(vcache[k])} : k \in DOMAIN vcache}
    \cup UNION {{<<"cc", k, x>> : x \in Range(ccache[k])} : k \in DOMAIN ccache}
Inserts(d) == {<<"var", p[1], p[2]>> : p \in d.vins} \cup {<<"cc", p[1], p[2]>> : p \in d.cins}

\* The root packages of the callers: the OPAM Root with its variables, the
\* unified Root with a platform, and the unified Root that main builds from
\* its packages and its variable assignments.
GmpRoot(os) ==
    BOpam(ORoot(<<<<OBase("conf-gmp"), {"1"}>>, <<OVar("os-family"), {os}>>,
                  <<OVar("os-distribution"), {os}>>>>))
PlatformRoot(os) ==
    BRoot(<<<<BOpam(OBase("conf-gmp")), {BV("Opam", "1")}>>,
            <<PlatformOS, {BV("Platform", os)}>>>>)
VariablesRoot(var, val) ==
    BRoot(<<<<BOpam(OBase("conf-gmp")), {BV("Opam", "1")}>>,
            <<BOpam(OVar(var)), {BV("Opam", val)}>>>>)

\* Filters of the grammar of version formulas.
VerOrVar == FOr(FVersion({"1"}), FVariable("with-test"))
VerAndVar == FAnd(FVersion({"1", "2"}), FVariable("with-test"))
VerAndVer == FAnd(FVersion({"1", "2"}), FVersion({"2"}))
LitFirst == FCmp("Eq", FLit("alpine"), FVariable("os-distribution"))
LitLt == FCmp("Lt", FLit("alpine"), FVariable("os-distribution"))
OsHaiku == FCmp("Eq", FVariable("os"), FLit("haiku"))
VarLtVar == FCmp("Lt", FVariable("with-test"), FVariable("with-doc"))
VarEqVar == FCmp("Eq", FVariable("with-test"), FVariable("with-doc"))
LitEqLit == FCmp("Neq", FLit("debian"), FLit("alpine"))
Nested == FAnd(FOr(DebianFamily, FNot("with-doc")), FVariable("with-test"))

Filters ==
    {FVariable("with-test"), FNot("with-doc"), DebianFamily, AlpineDistribution, LitFirst,
     LitLt, OsHaiku, VerOrVar, VerAndVar, VerAndVer, VarLtVar, VarEqVar,
     LitEqLit, Nested, FLit("true"), FVersion({"1"})}

\* Filters of depexts.
DepextFilters ==
    {DebianFamily, AlpineDistribution, LitFirst, Nested, OsHaiku, FVariable("with-test"),
     FCmp("Neq", FVariable("os-family"), FLit("debian")), FVersion({"1"})}

\* The packages a caller starts from: a package of the repository, what
\* from_formula makes of a dependency with each filter, and the depexts.
CompileRoots ==
    {BOpam(OBase("pkgA"))}
        \cup {BOpam(q) : q \in UNION {DOMAIN from_formula(PFBase("tool", e)).deps : e \in Filters}}
        \cup {BOpam(q) : q \in DOMAIN from_formula(PFDepext(<<"libgmp-dev">>, DebianFamily)).deps}
        \cup {BOpam(ODepext(<<"libgmp-dev", "gmp-dev">>, e)) : e \in DepextFilters}
        \cup {GmpRoot("debian"), PlatformRoot("alpine"), VariablesRoot("os-family", "debian"),
              BOpam(OBase("app"))}

\* The packages the last get_dependencies call returned.
Emitted == IF call.op = "get_dependencies" THEN DOMAIN call.out.deps ELSE {}

\* A ConflictClass package exists once from_formula has made it, and it
\* enters the cache in the same call.
Known(bp) ==
    bp.eco = "Opam" /\ bp.p.k = "ConflictClass" => bp.p.names[1] \in DOMAIN ccCache

\* Versions a caller may ask a Depext at, besides the listed ones.
DepextProbe == {BV("Opam", "debian"), BV("Opam", "alpine"), BV("Opam", "linux")}

\* The variable-literal comparisons that get_dependencies(bp, bv) compiles
\* directly: those of a Formula package whose filter is one comparison.
DirectComparison(bp) ==
    IF bp.eco = "Opam" /\ bp.p.k = "Formula" /\ bp.p.f[1].t = "Comparator"
    THEN LET lhs == bp.p.f[1].args[1]
             rhs == bp.p.f[1].args[2]
         IN IF lhs.t = "Variable" /\ rhs.t = "Lit" THEN {<<lhs.v, rhs.v>>}
            ELSE IF lhs.t = "Lit" /\ rhs.t = "Variable" THEN {<<rhs.v, lhs.v>>}
            ELSE {}
    ELSE {}

\* bv is a version that bp lists (listing l), or one the Depext arm matches on.
Asked(bp, bv, l) ==
    /\ l.ok
    /\ \/ bv \in Range(l.vs)
       \/ bp.eco = "Opam" /\ bp.p.k = "Depext" /\ bv \in DepextProbe

\* The call returns or panics with outcome out, its cache inserts made.
Returned(bp, bv, out) ==
    /\ varCache' \in CacheAfter(varCache, out.vins)
    /\ ccCache' \in CacheAfter(ccCache, out.cins)
    /\ call' = [NoCall EXCEPT !.op = "get_dependencies", !.idx = "babel", !.pkg = bp,
                              !.version = bv, !.out = out]
    /\ compiled' = compiled \cup DirectComparison(bp)

GetDependencies(bp, bv) ==
    /\ Known(bp)
    /\ Asked(bp, bv, BabelListVersions(bp))
    /\ Returned(bp, bv, BabelGetDependencies(bp, bv))
    /\ UNCHANGED <<alpinePackages, indexPackages, registered, solver>>

ListVersions(bp) ==
    /\ Known(bp)
    /\ call' = [NoCall EXCEPT !.op = "list_versions", !.idx = "babel", !.pkg = bp,
                              !.vs = BabelListVersions(bp)]
    /\ UNCHANGED <<alpinePackages, indexPackages, registered, varCache, ccCache, compiled, solver>>

\* negate_formula(e): prev holds the argument of the previous call when e is
\* that call's result.
NegateFormula(e, prev) ==
    /\ call' = [NoCall EXCEPT !.op = "negate_formula", !.f = <<e>>, !.prev = prev,
                              !.nf = negate_formula(e)]
    /\ UNCHANGED <<alpinePackages, indexPackages, registered, varCache, ccCache, compiled, solver>>

InitCompile ==
    /\ alpinePackages = [n \in {} |-> <<>>]
    /\ indexPackages = [n \in {} |-> <<>>]
    /\ registered = [alpine |-> {}, index |-> {}]
    /\ varCache = [x \in {} |-> <<>>]
    /\ ccCache = [x \in {} |-> <<>>]
    /\ call = NoCall
    /\ compiled = {}
    /\ solver = Idle

CompileGetDependencies ==
    \E bp \in CompileRoots \cup Emitted :
        \E bv \in Range(BabelListVersions(bp).vs) \cup DepextProbe : GetDependencies(bp, bv)

CompileListVersions ==
    \E bp \in Emitted \cup {BOpam(OVar(p[1])) : p \in compiled} : ListVersions(bp)

CompileNegate ==
    \/ \E e \in Filters : NegateFormula(e, <<>>)
    \/ /\ call.op = "negate_formula"
       /\ call.nf # FPanic
       /\ NegateFormula(call.nf, call.f)

NextCompile == CompileGetDependencies \/ CompileListVersions \/ CompileNegate

SpecCompile == InitCompile /\ [][NextCompile]_vars


-----------------------------------------------------------------------------
(* Operations on version sets                                              *)

\* The version sets of the model: Empty, Full and every range of two
\* ecosystems.
VersionSets ==
    {VsEmpty, VsFull} \cup {VsOf(tag, set) : tag \in {"Opam", "Debian"}, set \in SUBSET RangeAtoms}

\* The versions that contains is asked about.
SetVersions == {BV(eco, v) : eco \in {"Opam", "Debian"}, v \in {"1", "2"}}

Complement(S) ==
    /\ call' = [NoCall EXCEPT !.op = "complement", !.sets = <<S>>, !.set = complement(S)]
    /\ UNCHANGED <<alpinePackages, indexPackages, registered, varCache, ccCache, compiled, solver>>

Intersection(A, B) ==
    /\ call' = [NoCall EXCEPT !.op = "intersection", !.sets = <<A, B>>,
                              !.set = intersection(A, B)]
    /\ UNCHANGED <<alpinePackages, indexPackages, registered, varCache, ccCache, compiled, solver>>

Union(A, B) ==
    /\ call' = [NoCall EXCEPT !.op = "union", !.sets = <<A, B>>, !.set = union(A, B)]
    /\ UNCHANGED <<alpinePackages, indexPackages, registered, varCache, ccCache, compiled, solver>>

InitVersionSet ==
    /\ alpinePackages = [n \in {} |-> <<>>]
    /\ indexPackages = [n \in {} |-> <<>>]
    /\ registered = [alpine |-> {}, index |-> {}]
    /\ varCache = [x \in {} |-> <<>>]
    /\ ccCache = [x \in {} |-> <<>>]
    /\ call = NoCall
    /\ compiled = {}
    /\ solver = Idle

SetComplement == \E S \in VersionSets : Complement(S)
SetIntersection == \E A, B \in VersionSets : Intersection(A, B)
SetUnion == \E A, B \in VersionSets : Union(A, B)

NextVersionSet == SetComplement \/ SetIntersection \/ SetUnion

SpecVersionSet == InitVersionSet /\ [][NextVersionSet]_vars

-----------------------------------------------------------------------------
(* Building the indices and choosing versions                              *)

\* The add_deps calls made in all.
MaxAdds == 3

\* The versions Index::add_deps is called with are 1..MaxIndexVersion.
MaxIndexVersion == 2

Registrations == Cardinality(registered.alpine) + Cardinality(registered.index)

AlpineDependencies == {<<>>, <<[name |-> "musl", range |-> AlpineRange("Geq", <<"1">>)]>>}

AlpineAddDeps(name, version, dependencies) ==
    /\ Registrations < MaxAdds
    /\ alpinePackages' = AlpineAddDepsTo(alpinePackages, name, version, dependencies)
    /\ registered' = [registered EXCEPT !.alpine = @ \cup {<<name, version>>}]
    /\ call' = [NoCall EXCEPT !.op = "add_deps", !.idx = "alpine"]
    /\ UNCHANGED <<indexPackages, varCache, ccCache, compiled, solver>>

IndexAddDeps(package, version, new_deps) ==
    /\ Registrations < MaxAdds
    /\ indexPackages' = IndexAddDepsTo(indexPackages, package, version, new_deps)
    /\ registered' = [registered EXCEPT !.index = @ \cup {<<package, version>>}]
    /\ call' = [NoCall EXCEPT !.op = "add_deps", !.idx = "index"]
    /\ UNCHANGED <<alpinePackages, varCache, ccCache, compiled, solver>>

AlpineChoose(package, range) ==
    /\ call' = [NoCall EXCEPT !.op = "choose_version", !.idx = "alpine", !.pkg = BOpam(package),
                              !.arange = range, !.chosen = AlpineChooseVersion(package, range)]
    /\ UNCHANGED <<alpinePackages, indexPackages, registered, varCache, ccCache, compiled, solver>>

OpamChoose(package, range) ==
    /\ Known(BOpam(package))
    /\ call' = [NoCall EXCEPT !.op = "choose_version", !.idx = "opam", !.pkg = BOpam(package),
                              !.range = range, !.chosen = OpamChooseVersion(package, range).v]
    /\ UNCHANGED <<alpinePackages, indexPackages, registered, varCache, ccCache, compiled, solver>>

BabelChoose(bp, range) ==
    /\ Known(bp)
    /\ call' = [NoCall EXCEPT !.op = "choose_version", !.idx = "babel", !.pkg = bp,
                              !.range = range, !.chosen = BabelChooseVersion(bp, range).v]
    /\ UNCHANGED <<alpinePackages, indexPackages, registered, varCache, ccCache, compiled, solver>>

\* The choose_version calls of the model, as pairs <<package, range>>.
AlpineQueries ==
    ({OBase("gmp-dev")} \X {AlpineFull, AlpineRange("Eq", <<"0", "1">>), AlpineRange("Lt", <<"2">>)})
        \cup {<<OBase("musl"), AlpineFull>>}
OpamQueries ==
    ({OVar("os-family")} \X {RangeFull, {"debian"}})
        \cup ({OConflictClass("cls")} \X {RangeFull, {"pkgB"}})
        \cup {<<OBase("app"), {"1"}>>, <<OVar("arch"), {"arm64", "arm32"}>>,
              <<OFormula(OBase("tool"), DebianFamily), {"true"}>>}
BabelQueries ==
    ({PlatformOS} \X {BabelFull, {BV("Platform", "alpine")}})
        \cup {<<BOpam(ODepext(<<"libgmp-dev">>, DebianFamily)), {BV("Opam", "debian")}>>,
              <<BAlpine("gmp-dev"), LiftAlpineRange(AlpineRange("Lt", <<"2">>))>>,
              <<BDebian("libgmp10"), {BV("Debian", "1")}>>, <<BRoot(<<>>), BabelFull>>,
              <<BOpam(OVar("os-family")), LiftOpamRange({"debian", "false"})>>}

\* The packages whose get_dependencies fills the caches.
IndexRoots ==
    {BOpam(OBase("pkgA")), BOpam(OBase("pkgB")), BOpam(OFormula(OBase("tool"), DebianFamily))}

InitIndex ==
    /\ alpinePackages = [n \in {} |-> <<>>]
    /\ indexPackages = [n \in {} |-> <<>>]
    /\ registered = [alpine |-> {}, index |-> {}]
    /\ varCache = [x \in {} |-> <<>>]
    /\ ccCache = [x \in {} |-> <<>>]
    /\ call = NoCall
    /\ compiled = {}
    /\ solver = Idle

IndexAlpineAddDeps ==
    \E version \in AlpineVs : \E dependencies \in AlpineDependencies :
        AlpineAddDeps("gmp-dev", version, dependencies)

IndexIndexAddDeps ==
    \E version \in 1..MaxIndexVersion :
        \E new_deps \in {EmptyMap, [x \in {"b"} |-> "1.."]} :
            IndexAddDeps("a", version, new_deps)

IndexGetDependencies ==
    \E bp \in IndexRoots :
        \E bv \in Range(BabelListVersions(bp).vs) : GetDependencies(bp, bv)

IndexAlpineChoose == \E q \in AlpineQueries : AlpineChoose(q[1], q[2])
IndexOpamChoose == \E q \in OpamQueries : OpamChoose(q[1], q[2])
IndexBabelChoose == \E q \in BabelQueries : BabelChoose(q[1], q[2])

NextIndex ==
    \/ IndexAlpineAddDeps
    \/ IndexIndexAddDeps
    \/ IndexGetDependencies
    \/ IndexAlpineChoose
    \/ IndexOpamChoose
    \/ IndexBabelChoose

SpecIndex == InitIndex /\ [][NextIndex]_vars

-----------------------------------------------------------------------------
(* Resolution: the PubGrub engine driving the unified index                *)

Selected(stack) == {stack[i].p : i \in DOMAIN stack}
Selection(stack) ==
    [q \in Selected(stack) |-> stack[CHOOSE i \in DOMAIN stack : stack[i].p = q].v]
Required(stack) == UNION {DOMAIN stack[i].deps : i \in DOMAIN stack}
\* Every decision so far allows version v of q.
Allowed(stack, q, v) ==
    \A i \in DOMAIN stack : q \in DOMAIN stack[i].deps => v \in stack[i].deps[q]

Frame(bp, bv, deps) == [p |-> bp, v |-> bv, deps |-> deps]
Top == Len(solver.stack) + 1
Banned(q) == {b[2] : b \in {x \in solver.ban[Top] : x[1] = q}}
BanTop(q, v, why) == [solver.ban EXCEPT ![Top] = @ \cup {<<q, v, why>>}]
\* The sets for which choose_version has returned None for q.
Excluded(q) == UNION {n[2] : n \in {x \in solver.none : x[1] = q}}
\* The set the engine passes to choose_version for q ...
InRange(q, v) == Allowed(solver.stack, q, v) /\ v \notin Banned(q) /\ v \notin Excluded(q)
RangeFor(q) == {v \in BabelFull : InRange(q, v)}
\* ... of which choose_version reads the versions that q lists.
Listing(q) == LET l == BabelListVersions(q) IN IF l.ok THEN Range(l.vs) ELSE {}
Candidates(q) == {v \in Listing(q) : InRange(q, v)}

\* The engine takes the packages in the order it met them: q is next when no
\* other package without a version is required by an earlier decision.
Met(q) == CHOOSE i \in DOMAIN solver.stack :
              /\ q \in DOMAIN solver.stack[i].deps
              /\ \A j \in 1..(i - 1) : q \notin DOMAIN solver.stack[j].deps
IsNext(q) ==
    /\ q \in Required(solver.stack) \ Selected(solver.stack)
    /\ \A r \in Required(solver.stack) \ Selected(solver.stack) : Met(q) <= Met(r)

\* The queries of the model: a root package and its version.
Queries ==
    {<<GmpRoot("debian"), BV("Opam", "")>>, <<GmpRoot("alpine"), BV("Opam", "")>>,
     <<PlatformRoot("debian"), Singular>>,
     <<BOpam(ORoot(<<<<OBase("app"), {"1"}>>>>)), BV("Opam", "")>>,
     <<BOpam(ORoot(<<<<OBase("app"), {"2"}>>, <<OVar("with-test"), {"true"}>>>>)), BV("Opam", "")>>,
     <<BOpam(ORoot(<<<<OBase("conf-gmp"), {"2"}>>>>)), BV("Opam", "")>>,
     <<BOpam(ORoot(<<<<OBase("bad"), {"1"}>>>>)), BV("Opam", "")>>,
     <<BOpam(ORoot(<<<<OBase("pkgA"), {"1"}>>, <<OBase("pkgB"), {"1"}>>>>)), BV("Opam", "")>>,
     <<BOpam(ORoot(<<<<OBase("app"), {"1"}>>, <<OBase("pkgB"), {"1"}>>>>)), BV("Opam", "")>>,
     <<BOpam(ORoot(<<<<OBase("or-error"), {"1"}>>>>)), BV("Opam", "")>>,
     <<BOpam(ORoot(<<<<OBase("conf-gmp"), {"1"}>>>>)), BV("Opam", "")>>}

\* resolve(root, version): the engine decides the root and asks for its
\* dependencies.
\* The root is decided, d being the outcome of get_dependencies on it.
Rooted(root, version, d) ==
    /\ varCache' \in CacheAfter(varCache, d.vins)
    /\ ccCache' \in CacheAfter(ccCache, d.cins)
    /\ solver' = IF d.ok
                 THEN [status |-> "solving", stack |-> <<Frame(root, version, d.deps)>>,
                       ban |-> <<{}, {}>>, none |-> {},
                       grew |-> varCache' # varCache \/ ccCache' # ccCache,
                       nth |-> solver.nth, before |-> Contents(varCache, ccCache),
                       own |-> Inserts(d), request |-> solver.request]
                 ELSE [Idle EXCEPT !.status = "panicked", !.nth = solver.nth,
                                   !.before = Contents(varCache, ccCache), !.own = Inserts(d),
                                   !.request = solver.request]

SolverStart(root, version) ==
    /\ solver.status = "idle"
    /\ Rooted(root, version, BabelGetDependencies(root, version))
    /\ UNCHANGED <<alpinePackages, indexPackages, registered, call, compiled>>

\* The engine asks choose_version for a version of the next package among
\* the allowed ones and get_dependencies for its dependencies; a version
\* whose dependencies are unavailable or contradict a decision is ruled out.
\* The decisions that the dependencies deps contradict.
Clash(deps) ==
    {i \in DOMAIN solver.stack :
        /\ solver.stack[i].p \in DOMAIN deps
        /\ solver.stack[i].v \notin deps[solver.stack[i].p]}

\* q is tried at version v, d being the outcome of get_dependencies(q, v).
Tried(q, v, d, g) ==
    /\ varCache' \in CacheAfter(varCache, d.vins)
    /\ ccCache' \in CacheAfter(ccCache, d.cins)
    /\ solver' =
          IF ~d.ok
          THEN [solver EXCEPT !.status = "panicked", !.grew = g, !.own = @ \cup Inserts(d)]
          ELSE IF ~d.avail \/ Clash(d.deps) # {}
          THEN [solver EXCEPT !.ban = BanTop(q, v, Clash(d.deps)), !.grew = g,
                              !.own = @ \cup Inserts(d)]
          ELSE [solver EXCEPT !.stack = Append(@, Frame(q, v, d.deps)),
                              !.ban = Append(@, {}), !.grew = g, !.own = @ \cup Inserts(d)]

\* c is what choose_version returned for q: Some(v).
Chosen(q, c) ==
    /\ c.ok
    /\ c.v # <<>>
    /\ Tried(q, c.v[1], BabelGetDependencies(q, c.v[1]),
             solver.grew \/ varCache' # varCache \/ ccCache' # ccCache)

SolverDecide(q) ==
    /\ solver.status = "solving"
    /\ IsNext(q)
    /\ Chosen(q, BabelChooseVersion(q, Candidates(q)))
    /\ UNCHANGED <<alpinePackages, indexPackages, registered, call, compiled>>

\* The decisions that leave q without a version: those that constrain it and
\* those that rule its versions out.
Conflict(q) ==
    {i \in DOMAIN solver.stack : q \in DOMAIN solver.stack[i].deps}
        \cup UNION {b[3] : b \in {x \in solver.ban[Top] : x[1] = q}}

Max(S) == CHOOSE x \in S : \A y \in S : y <= x

\* choose_version returns None for the next package: the engine never asks
\* for a version in that set again, goes back to the last decision that
\* leaves the package without a version and rules that decision out, or
\* reports that there is no solution when that is the root.
SolverBacktrack(q) ==
    /\ solver.status = "solving"
    /\ IsNext(q)
    /\ BabelChooseVersion(q, Candidates(q)) = [ok |-> TRUE, v |-> <<>>]
    /\ solver' =
          LET n == Max(Conflict(q))
              none == solver.none \cup {<<q, RangeFor(q)>>}
          IN IF n = 1 THEN [solver EXCEPT !.status = "failed", !.none = none]
             ELSE [solver EXCEPT
                      !.stack = SubSeq(@, 1, n - 1),
                      !.ban = [SubSeq(@, 1, n) EXCEPT
                                  ![n] = @ \cup {<<solver.stack[n].p, solver.stack[n].v,
                                                   Conflict(q) \ {n}>>}],
                      !.none = none]
    /\ UNCHANGED <<alpinePackages, indexPackages, registered, varCache, ccCache, call, compiled>>

\* Every required package has a version: the selection is the solution.
SolverFinish ==
    /\ solver.status = "solving"
    /\ Required(solver.stack) \subseteq Selected(solver.stack)
    /\ solver' = [solver EXCEPT !.status = "solved"]
    /\ UNCHANGED <<alpinePackages, indexPackages, registered, varCache, ccCache, call, compiled>>

\* The Alpine index read from APKINDEX.
AlpineFixture ==
    AlpineAddDepsTo(
        AlpineAddDepsTo(AlpineAddDepsTo([n \in {} |-> <<>>], "musl", <<"1">>, <<>>),
                        "so:libc.musl-x86_64.so.1", <<"1">>, <<>>),
        "gmp-dev", <<"2">>,
        <<[name |-> "musl", range |-> AlpineFull],
          [name |-> "so:libc.musl-x86_64.so.1", range |-> AlpineFull]>>)

\* get_dependencies calls of another resolution in the same process.
OtherRoots ==
    {BOpam(OFormula(OBase("tool"), FCmp("Eq", FVariable("os-family"), FLit("alpine"))))}

InitSolve ==
    /\ alpinePackages = AlpineFixture
    /\ indexPackages = [n \in {} |-> <<>>]
    /\ registered = [alpine |-> {}, index |-> {}]
    /\ varCache = [x \in {} |-> <<>>]
    /\ ccCache = [x \in {} |-> <<>>]
    /\ call = NoCall
    /\ compiled = {}
    /\ solver = Idle

SolveStart == \E query \in Queries : SolverStart(query[1], query[2])
SolveDecide == \E q \in Required(solver.stack) : SolverDecide(q)
SolveBacktrack == \E q \in Required(solver.stack) : SolverBacktrack(q)
SolveOther ==
    /\ call.op = "none"
    /\ solver.status = "solving"
    /\ \E bp \in OtherRoots : GetDependencies(bp, BV("Opam", "true"))

NextSolve ==
    SolveStart \/ SolveDecide \/ SolveBacktrack \/ SolverFinish \/ SolveOther

SpecSolve == InitSolve /\ [][NextSolve]_vars

-----------------------------------------------------------------------------
(* The server: one process that answers resolution requests                *)

\* The resolutions one process of the model answers.
MaxQueries == 2

\* A request: ecosystem, package and version as the client sent them, and
\* the platform, an Option (<<>> or <<name>>). The version is a string, and
\* for Alpine, whose versions the code reads character by character, the
\* sequence of its characters.
Str(s) == [s |-> s, a |-> <<>>]
Chars(a) == [s |-> "", a |-> a]
Request(ecosystem, package, version, platform) ==
    [ecosystem |-> ecosystem, package |-> package, version |-> version, platform |-> platform]

\* The version strings of the model that parse as SemVer.
SemVers == {"1.0.0"}

\* The outcome of validation: an error, or the package and the version to
\* resolve.
Rejected(error) == [ok |-> FALSE, error |-> error, root |-> BRoot(<<>>), version |-> Singular]
Accepted(root, version) == [ok |-> TRUE, error |-> "", root |-> root, version |-> version]

\* The package and the version of the request in its ecosystem.
EcosystemPackage(request) ==
    CASE request.ecosystem = "opam" ->
            <<BOpam(OBase(request.package)), BV("Opam", request.version.s)>>
      [] request.ecosystem = "debian" ->
            <<BDebian(request.package), BV("Debian", request.version.s)>>
      [] request.ecosystem = "alpine" ->
            <<BAlpine(request.package), BVA(request.version.a)>>
      [] request.ecosystem = "cargo" ->
            <<[eco |-> "Cargo", p |-> OBase(request.package), bkids |-> <<>>],
              BV("Cargo", request.version.s)>>

\* The head of resolve_package_dependencies: the platform is checked first,
\* then the ecosystem, and a cargo version is parsed; with a platform the
\* package becomes a child of a unified Root beside Platform(OS).
WithPlatform(dep, platform) ==
    Accepted(BRoot(<<<<dep[1], {dep[2]}>>, <<PlatformOS, {BV("Platform", platform)}>>>>),
             Singular)

\* Validate gone wrong: the platform is not checked.
ValidateEcosystem(request) ==
    IF request.ecosystem \notin {"opam", "debian", "alpine", "cargo"}
    THEN Rejected("Unsupported ecosystem")
    ELSE IF request.ecosystem = "cargo" /\ request.version.s \notin SemVers
    THEN Rejected("Invalid Cargo version")
    ELSE IF request.platform = <<>>
    THEN Accepted(EcosystemPackage(request)[1], EcosystemPackage(request)[2])
    ELSE WithPlatform(EcosystemPackage(request), request.platform[1])

Validate(request) ==
    IF request.platform # <<>> /\ request.platform[1] \notin {"alpine", "debian"}
    THEN Rejected("Unsupported platform")
    ELSE IF request.ecosystem \notin {"opam", "debian", "alpine", "cargo"}
    THEN Rejected("Unsupported ecosystem")
    ELSE IF request.ecosystem = "cargo" /\ request.version.s \notin SemVers
    THEN Rejected("Invalid Cargo version")
    ELSE IF request.platform = <<>>
    THEN Accepted(EcosystemPackage(request)[1], EcosystemPackage(request)[2])
    ELSE WithPlatform(EcosystemPackage(request), request.platform[1])

\* name.starts_with("so:"), on the package names of the model.
SoNames == {"so:libc.musl-x86_64.so.1"}
starts_with_so(name) == name \in SoNames

\* ver.to_string(): the string of the version, without its ecosystem.
VersionString(ver) == [s |-> ver.s, a |-> ver.a]

\* Surfaced gone wrong: the shared objects of Alpine are shown too.
SurfacedWithSo(sol) ==
    {q \in DOMAIN sol : q.eco \in {"Opam", "Debian", "Alpine"} /\ q.p.k = "Base"}

\* The entries of the solution sol that the response shows.
Surfaced(sol) ==
    {q \in DOMAIN sol :
        \/ q.eco = "Opam" /\ q.p.k = "Base"
        \/ q.eco = "Debian"
        \/ q.eco = "Alpine" /\ q.p.k = "Base" /\ ~starts_with_so(q.p.names[1])}
Ecosystem(q) ==
    CASE q.eco = "Opam" -> "opam" [] q.eco = "Debian" -> "debian" [] q.eco = "Alpine" -> "alpine"
Entry(q, ver) ==
    [ecosystem |-> Ecosystem(q), name |-> q.p.names[1], version |-> VersionString(ver)]

\* The response: Ok with the dependencies, or Err.
Resolved(dependencies) == [resolved |-> TRUE, dependencies |-> dependencies, error |-> ""]
Failed(error) == [resolved |-> FALSE, dependencies |-> <<>>, error |-> error]

\* The request is valid: the three indices are read from their files.
ServerAccept(request) ==
    /\ solver.status = "idle"
    /\ solver.nth < MaxQueries
    /\ Validate(request).ok
    /\ alpinePackages' = AlpineFixture
    /\ solver' = [solver EXCEPT !.status = "loaded", !.request = <<request>>]
    /\ call' = NoCall
    /\ UNCHANGED <<indexPackages, registered, varCache, ccCache, compiled>>

\* The request is not valid: the handler returns the error.
ServerReject(request) ==
    /\ solver.status = "idle"
    /\ ~Validate(request).ok
    /\ call' = [NoCall EXCEPT !.op = "response", !.request = <<request>>,
                              !.response = <<Failed(Validate(request).error)>>]
    /\ UNCHANGED <<alpinePackages, indexPackages, registered, varCache, ccCache, compiled,
                   solver>>

\* pubgrub::resolve(&index, babel_package, babel_version).
Resolve(v) == Rooted(v.root, v.version, BabelGetDependencies(v.root, v.version))

ServerResolve ==
    /\ solver.status = "loaded"
    /\ Resolve(Validate(solver.request[1]))
    /\ UNCHANGED <<alpinePackages, indexPackages, registered, call, compiled>>

\* The dependencies of the response, in the order the solution iterates.
Dependencies(sol, order) == [i \in DOMAIN order |-> Entry(order[i], sol[order[i]])]

\* resolve_package_dependencies returns the solution or the error of
\* pubgrub::resolve; its indices are dropped, the process-wide caches stay
\* as they are, and the process takes the next request.
Respond(response) ==
    /\ call' = [NoCall EXCEPT !.op = "response", !.request = solver.request,
                              !.response = <<response>>]
    /\ solver' = [Idle EXCEPT !.nth = solver.nth + 1]
    /\ alpinePackages' = [n \in {} |-> <<>>]
    /\ UNCHANGED <<indexPackages, registered, varCache, ccCache, compiled>>

ResolveReturn ==
    \/ /\ solver.status = "solved"
       /\ \E order \in Orders(Surfaced(Selection(solver.stack))) :
             Respond(Resolved(Dependencies(Selection(solver.stack), order)))
    \/ /\ solver.status = "failed"
       /\ Respond(Failed("No solution found"))

\* The requests of the model.
Requests ==
    {Request("opam", "conf-gmp", Str("1"), <<>>), Request("opam", "opt", Str("1"), <<>>),
     Request("opam", "app", Str("1"), <<>>),
     Request("opam", "pkgB", Str("1"), <<>>),
     Request("opam", "conf-gmp", Str("1"), <<"debian">>),
     Request("opam", "conf-gmp", Str("1"), <<"alpine">>),
     Request("alpine", "gmp-dev", Chars(<<"2">>), <<>>),
     Request("debian", "libgmp-dev", Str("2"), <<>>),
     Request("opam", "conf-gmp", Str("1"), <<"ubuntu">>),
     Request("npm", "conf-gmp", Str("1"), <<>>),
     Request("npm", "conf-gmp", Str("1"), <<"debian">>),
     Request("cargo", "serde", Str("1"), <<>>),
     Request("cargo", "serde", Str("1"), <<"alpine">>)}

ServerStart == \E request \in Requests : ServerAccept(request)
ServerRefuse == \E request \in Requests : ServerReject(request)

InitServer ==
    /\ alpinePackages = [n \in {} |-> <<>>]
    /\ indexPackages = [n \in {} |-> <<>>]
    /\ registered = [alpine |-> {}, index |-> {}]
    /\ varCache = [x \in {} |-> <<>>]
    /\ ccCache = [x \in {} |-> <<>>]
    /\ call = NoCall
    /\ compiled = {}
    /\ solver = Idle

NextServer ==
    \/ ServerStart
    \/ ServerRefuse
    \/ ServerResolve
    \/ SolveDecide
    \/ SolveBacktrack
    \/ SolverFinish
    \/ SolveOther
    \/ ResolveReturn

SpecServer == InitServer /\ [][NextServer]_vars

-----------------------------------------------------------------------------
(* Comparing versions                                                      *)

\* The suffixes of Alpine versions, and the version strings of the model: a
\* base, alone or followed by "_" and a suffix.
PreSuffixes == {<<"a", "l", "p", "h", "a">>, <<"b", "e", "t", "a">>, <<"p", "r", "e">>, <<"r", "c">>}
PostSuffixes == {<<"p">>, <<"c", "v", "s">>, <<"s", "v", "n">>, <<"g", "i", "t">>, <<"h", "g">>}
AlpineBases ==
    {<<>>, <<"1">>, <<"1", ".", "0">>, <<"1", ".", "0", "1">>, <<"a">>, <<"1", "_">>,
     <<"1", "-">>, <<"1", "_", "r", "c">>, <<"0", "1">>}
WithSuffix(b, suffix) == b \o <<"_">> \o suffix
AlpineVersions ==
    AlpineBases \cup {WithSuffix(b, suffix) : b \in AlpineBases, suffix \in PreSuffixes \cup PostSuffixes}

\* The Debian version strings of the model: upstream parts, each alone, with
\* "~" and an extension, with an extension, with an epoch, with a revision.
DebianUpstreams ==
    {<<>>, <<"1">>, <<"1", ".", "0">>, <<"1", ".", "0", "a">>, <<"1", "~">>, <<"1", "-", "2">>}
Extensions == {<<"a">>, <<"1">>, <<"+">>, <<"~">>, <<".", "1">>, <<"r", "c", "1">>}
WithEpoch(epoch, u) == epoch \o <<":">> \o u
WithRevision(u, revision) == u \o <<"-">> \o revision
DebianVersions ==
    DebianUpstreams
        \cup {u \o <<"~">> \o x : u \in DebianUpstreams, x \in Extensions}
        \cup {u \o x : u \in DebianUpstreams, x \in Extensions}
        \cup {WithEpoch(e, u) : e \in {<<"1">>, <<"0">>, <<"a">>}, u \in {<<"1">>, <<"0", ".", "9">>}}
        \cup {WithRevision(u, r) : u \in {<<"1">>, <<"1", ".", "0">>}, r \in {<<"0">>, <<"1">>}}
        \cup {<<" ", "1">>, <<"1", ".", "0", "0">>, <<"0", "1">>}

\* a.cmp(&b) on the two versions that the call was given.
DebianCompare ==
    /\ call.op = "none" /\ call.idx = "debian"
    /\ call' = [call EXCEPT !.op = "cmp", !.ord = DebianCmp(call.args[1], call.args[2])]
    /\ UNCHANGED <<alpinePackages, indexPackages, registered, varCache, ccCache, compiled, solver>>

AlpineCompare ==
    /\ call.op = "none" /\ call.idx = "alpine"
    /\ call' = [call EXCEPT !.op = "cmp", !.ord = AlpineCmp(call.args[1], call.args[2])]
    /\ UNCHANGED <<alpinePackages, indexPackages, registered, varCache, ccCache, compiled, solver>>

InitOrder ==
    /\ alpinePackages = [n \in {} |-> <<>>]
    /\ indexPackages = [n \in {} |-> <<>>]
    /\ registered = [alpine |-> {}, index |-> {}]
    /\ varCache = [x \in {} |-> <<>>]
    /\ ccCache = [x \in {} |-> <<>>]
    /\ call \in {[NoCall EXCEPT !.idx = "alpine", !.args = <<a, b>>] : a, b \in AlpineVersions}
                \cup {[NoCall EXCEPT !.idx = "debian", !.args = <<a, b>>] : a, b \in DebianVersions}
    /\ compiled = {}
    /\ solver = Idle

NextOrder == AlpineCompare \/ DebianCompare

SpecOrder == InitOrder /\ [][NextOrder]_vars

-----------------------------------------------------------------------------
(* Parsing the dependency items of an APKINDEX                              *)

\* str::find of a pattern: the first index where it begins, 0 when absent.
FindStr(s, pattern) ==
    LET At(i) == i + Len(pattern) - 1 <= Len(s) /\ SubSeq(s, i, i + Len(pattern) - 1) = pattern IN
    IF \E i \in DOMAIN s : At(i)
    THEN CHOOSE i \in DOMAIN s : At(i) /\ \A j \in 1..(i - 1) : ~At(j)
    ELSE 0

\* re_patterns, in the order in which the loop tries them.
re_patterns ==
    <<[pattern |-> <<">", "=">>, relation |-> "GreaterOrEqual"],
      [pattern |-> <<">">>, relation |-> "Greater"],
      [pattern |-> <<"=">>, relation |-> "Equal"],
      [pattern |-> <<"<", "=">>, relation |-> "LessOrEqual"],
      [pattern |-> <<"<">>, relation |-> "Less"]>>

\* parse::Dependency: the package and Some or None version constraint.
ParsedDependency(package, version_constraint) ==
    [package |-> package, version_constraint |-> version_constraint]
VersionConstraint(relation, version) == [relation |-> relation, version |-> version]

\* The loop of parse_alpine_dependency_item from pattern i on: the first
\* pattern that the item holds splits it.
RECURSIVE ParseFrom(_, _, _)
ParseAt(s, patterns, i, idx) ==
    IF idx > 0
    THEN ParsedDependency(SubSeq(s, 1, idx - 1),
             <<VersionConstraint(patterns[i].relation,
                                 SubSeq(s, idx + Len(patterns[i].pattern), Len(s)))>>)
    ELSE ParseFrom(s, patterns, i + 1)
ParseFrom(s, patterns, i) ==
    IF i > Len(patterns) THEN ParsedDependency(s, <<>>)
    ELSE ParseAt(s, patterns, i, FindStr(s, patterns[i].pattern))
parse_alpine_dependency_item(s) == ParseFrom(s, re_patterns, 1)

\* The items of the model: a name alone, or a name, an operator and a version.
ItemNames == {<<"l", "i", "b", "c">>, <<"s", "o", ":", "l", ".", "1">>, <<"a">>, <<"!", "b">>, <<>>}
Operators == {<<"<">>, <<"<", "=">>, <<"=">>, <<">", "=">>, <<">">>}
ItemVersions == {<<"1", ".", "2", ".", "3">>, <<"1">>, <<"2", "-", "r", "0">>, <<"1", "_", "r", "c">>, <<>>}
Relation(op) ==
    CASE op = <<"<">> -> "Less" [] op = <<"<", "=">> -> "LessOrEqual" [] op = <<"=">> -> "Equal"
      [] op = <<">", "=">> -> "GreaterOrEqual" [] op = <<">">> -> "Greater"

\* parse_alpine_dependency_item on the item that the call was given.
ParseItem ==
    /\ call.op = "none" /\ call.idx = "item"
    /\ call' = [call EXCEPT !.op = "parsed",
                    !.response = <<parse_alpine_dependency_item(
                                       call.args[1] \o call.args[2] \o call.args[3])>>]
    /\ UNCHANGED <<alpinePackages, indexPackages, registered, varCache, ccCache, compiled, solver>>

InitParse ==
    /\ alpinePackages = [n \in {} |-> <<>>]
    /\ indexPackages = [n \in {} |-> <<>>]
    /\ registered = [alpine |-> {}, index |-> {}]
    /\ varCache = [x \in {} |-> <<>>]
    /\ ccCache = [x \in {} |-> <<>>]
    /\ call \in {[NoCall EXCEPT !.idx = "item", !.args = <<name, op, ver>>] :
                    name \in ItemNames, op \in Operators, ver \in ItemVersions}
                \cup {[NoCall EXCEPT !.idx = "item", !.args = <<name, <<>>, <<>>>>] : name \in ItemNames}
    /\ compiled = {}
    /\ solver = Idle

NextParse == ParseItem

SpecParse == InitParse /\ [][NextParse]_vars

-----------------------------------------------------------------------------
(* Building the Alpine index from the stanzas of an APKINDEX                *)

\* parse_alpine_package: the P and V fields and the items of the D and p
\* fields, each parsed.
Package(package, version, depends, provides) ==
    [package |-> package, version |-> version,
     depends |-> [i \in DOMAIN depends |-> parse_alpine_dependency_item(depends[i])],
     provides |-> [i \in DOMAIN provides |-> parse_alpine_dependency_item(provides[i])]]

version_constraint_to_range(relop, version) ==
    CASE relop = "Equal" -> AlpineRange("Eq", version)
      [] relop = "GreaterOrEqual" -> AlpineRange("Geq", version)
      [] relop = "Greater" -> AlpineRange("Gt", version)
      [] relop = "Less" -> AlpineRange("Lt", version)
      [] relop = "LessOrEqual" -> AlpineRange("Leq", version)

convert_dependency(dep) ==
    [name |-> dep.package,
     range |-> IF dep.version_constraint = <<>> THEN AlpineFull
               ELSE version_constraint_to_range(dep.version_constraint[1].relation,
                                                dep.version_constraint[1].version)]
convert_dependency_field(parsed) == [i \in DOMAIN parsed |-> convert_dependency(parsed[i])]

\* The dependency list of a virtual package's entry: the provider at the
\* version of its stanza.
ProviderAt(ap) == <<[name |-> ap.package, range |-> AlpineRange("Eq", ap.version)]>>

\* for provided in provides: add_deps(provided.name, AlpineVersion(ap.package), ..).
RECURSIVE AddProvides(_, _, _, _)
AddProvides(index, ap, provides, j) ==
    IF j > Len(provides) THEN index
    ELSE AddProvides(AlpineAddDepsTo(index, provides[j].name, ap.package, ProviderAt(ap)),
                     ap, provides, j + 1)

\* for ap in alpine_packages, from the i-th on.
RECURSIVE CreateFrom(_, _, _)
CreateFrom(index, alpine_packages, i) ==
    IF i > Len(alpine_packages) THEN index
    ELSE CreateFrom(
             AddProvides(AlpineAddDepsTo(index, alpine_packages[i].package,
                                         alpine_packages[i].version,
                                         convert_dependency_field(alpine_packages[i].depends)),
                         alpine_packages[i],
                         convert_dependency_field(alpine_packages[i].provides), 1),
             alpine_packages, i + 1)
create_index(alpine_packages) == CreateFrom([n \in {} |-> <<>>], alpine_packages, 1)

\* The stanzas of the model: packages a and b, the virtual so:c.
MaxStanzas == 3
SoC == <<"s", "o", ":", "c">>
Stanzas ==
    {Package(<<"a">>, <<"1">>, <<>>, <<SoC>>),
     Package(<<"a">>, <<"2">>, <<>>, <<SoC \o <<"=", "2">>>>),
     Package(<<"b">>, <<"1">>, <<>>, <<SoC>>),
     Package(<<"a">>, <<"1">>, <<>>, <<<<"b">>>>),
     Package(<<"b">>, <<"1">>, <<>>, <<>>),
     Package(<<"b">>, <<"2">>, <<<<"a", ">", "=", "1">>, SoC>>, <<>>)}
RECURSIVE Lists(_)
Lists(n) ==
    IF n = 0 THEN {<<>>}
    ELSE Lists(n - 1) \cup {Append(l, x) : l \in {y \in Lists(n - 1) : Len(y) = n - 1}, x \in Stanzas}

\* create_index on the stanzas that the call was given.
CreateIndex ==
    /\ call.op = "none" /\ call.idx = "apkindex"
    /\ alpinePackages' = create_index(call.args)
    /\ call' = [call EXCEPT !.op = "created"]
    /\ UNCHANGED <<indexPackages, registered, varCache, ccCache, compiled, solver>>

InitCreate ==
    /\ alpinePackages = [n \in {} |-> <<>>]
    /\ indexPackages = [n \in {} |-> <<>>]
    /\ registered = [alpine |-> {}, index |-> {}]
    /\ varCache = [x \in {} |-> <<>>]
    /\ ccCache = [x \in {} |-> <<>>]
    /\ call \in {[NoCall EXCEPT !.idx = "apkindex", !.args = l] : l \in Lists(MaxStanzas)}
    /\ compiled = {}
    /\ solver = Idle

NextCreate == CreateIndex

SpecCreate == InitCreate /\ [][NextCreate]_vars

-----------------------------------------------------------------------------
(* Properties of version selection and of the version listings             *)

\* chosen is the first element of vs that In accepts, or None when In
\* accepts no element of vs.
FirstListed(chosen, vs, In(_)) ==
    \/ chosen = <<>> /\ \A i \in DOMAIN vs : ~In(vs[i])
    \/ \E i \in DOMAIN vs :
          /\ chosen = <<vs[i]>>
          /\ In(vs[i])
          /\ \A j \in 1..(i - 1) : ~In(vs[j])

\* C1: choose_version(P, S) returns Some(v) if and only if list_versions(P)
\* has a version in S, v being the first such in list_versions order, and
\* None otherwise; on the unified index and the OPAM and Alpine indices.
C1_ChoosesFirstListed ==
    call.op = "choose_version" =>
        CASE call.idx = "alpine" ->
                FirstListed(call.chosen, AlpineListVersions(call.pkg.p),
                            LAMBDA v : AlpineContains(call.arange, v))
          [] call.idx = "opam" ->
                FirstListed(call.chosen, OpamListVersions(call.pkg.p).vs,
                            LAMBDA v : v \in call.range)
          [] call.idx = "babel" ->
                FirstListed(call.chosen, BabelListVersions(call.pkg).vs,
                            LAMBDA v : v \in call.range)

\* choose_version on the unified index passed over the first listed version
\* of Platform(OS) and returned the second.
C1_Witness ==
    /\ call.op = "choose_version"
    /\ call.idx = "babel"
    /\ call.pkg = PlatformOS
    /\ call.range = {BV("Platform", "alpine")}
    /\ call.chosen = <<BV("Platform", "alpine")>>

StrictlyDescending(vs, Greater(_, _)) ==
    \A i, j \in DOMAIN vs : i < j => Greater(vs[i], vs[j])

ListsExactly(vs, versions) ==
    /\ Range(vs) = versions
    /\ Len(vs) = Cardinality(versions)

RegisteredFor(index, name) == {r[2] : r \in {x \in index : x[1] = name}}

\* C2: after any sequence of add_deps calls, list_versions of a Base package
\* returns every version registered for it exactly once, strictly descending
\* in the ecosystem's version order, and nothing for a package that was
\* never registered.
C2_ListsRegisteredVersions ==
    /\ \A name \in {"gmp-dev", "musl"} :
          LET vs == AlpineListVersions(OBase(name)) IN
          /\ ListsExactly(vs, RegisteredFor(registered.alpine, name))
          /\ StrictlyDescending(vs, LAMBDA a, b : AlpineCmp(a, b) = "Greater")
    /\ \A name \in {"a", "b"} :
          LET vs == IndexAvailableVersions(name) IN
          /\ ListsExactly(vs, RegisteredFor(registered.index, name))
          /\ StrictlyDescending(vs, LAMBDA a, b : a > b)

-----------------------------------------------------------------------------
(* Properties of the solutions                                             *)

Solution == Selection(solver.stack)

\* C3: in every solution, for every selected (P, V) and every constraint
\* (Q, S) of get_dependencies(P, V), Q is selected and its version is in S,
\* although the caches grow during the resolution.
C3_SolutionSound ==
    solver.status = "solved" =>
        \A bp \in DOMAIN Solution :
            LET d == BabelGetDependencies(bp, Solution[bp]) IN
            /\ d.ok
            /\ \A q \in DOMAIN d.deps : q \in DOMAIN Solution /\ Solution[q] \in d.deps[q]

\* A resolution during which a cache grew returned a solution that selects a
\* variable and a package with dependencies.
C3_Witness ==
    /\ solver.status = "solved"
    /\ solver.grew
    /\ BOpam(OVar("os-family")) \in DOMAIN Solution
    /\ BOpam(OBase("conf-gmp")) \in DOMAIN Solution
    /\ Len(varCache["os-family"]) = 2

\* The depexts of the selected OPAM packages: <<names, filter>>.
SelectedDepexts ==
    {<<pf.names, pf.f[1]>> :
        pf \in UNION {Range(Repo[bp.p.names[1]][Solution[bp].s]) :
                        bp \in {x \in DOMAIN Solution : x.eco = "Opam" /\ x.p.k = "Base"}}
               \cap {PFDepext(<<n>>, e) : n \in {"libgmp-dev", "gmp-dev"},
                                          e \in {DebianFamily, AlpineDistribution}}}

SelectedAs(var, os) ==
    /\ BOpam(OVar(var)) \in DOMAIN Solution
    /\ Solution[BOpam(OVar(var))] = BV("Opam", os)

\* C4: in every solution in which os-family or os-distribution is selected
\* as "debian" and an OPAM package with a depext names {os-family =
\* "debian"} is selected, the Depext is selected at "debian", never at
\* "alpine", and every Debian(n), n in names, is in the solution; the same
\* for alpine.
C4_DepextFollowsOs ==
    solver.status = "solved" =>
        \A os \in {"debian", "alpine"} : \A dx \in SelectedDepexts :
            /\ SelectedAs("os-family", os) \/ SelectedAs("os-distribution", os)
            /\ \E var \in {"os-family", "os-distribution"} :
                  dx[2] = FCmp("Eq", FVariable(var), FLit(os))
            => /\ BOpam(ODepext(dx[1], dx[2])) \in DOMAIN Solution
               /\ Solution[BOpam(ODepext(dx[1], dx[2]))] = BV("Opam", os)
               /\ \A i \in DOMAIN dx[1] :
                     IF os = "debian" THEN BDebian(dx[1][i]) \in DOMAIN Solution
                     ELSE BAlpine(dx[1][i]) \in DOMAIN Solution

-----------------------------------------------------------------------------
(* Properties of the formula compiler and of the depext translation        *)

IsGetDependencies(kind) ==
    /\ call.op = "get_dependencies"
    /\ call.pkg.eco = "Opam"
    /\ call.pkg.p.k = kind

\* The sub-terms of e that are reached through And and Or only.
RECURSIVE AndOrTerms(_)
AndOrTerms(e) ==
    IF e.t \in {"And", "Or"}
    THEN {e} \cup AndOrTerms(e.args[1]) \cup AndOrTerms(e.args[2])
    ELSE {e}

EqualsOs(e, os) ==
    \E t \in AndOrTerms(e) :
        /\ t.t = "Comparator"
        /\ t.op = "Eq"
        /\ \E var \in {"os-distribution", "os-family"} :
              {t.args[1], t.args[2]} = {FVariable(var), FLit(os)}

\* C5: get_dependencies on Depext{names, formula} at "debian" returns exactly
\* {Debian(n) -> full | n in names} when the formula holds an equality of
\* os-distribution or os-family with "debian", in either operand order and at
\* any depth under And/Or, and the empty map otherwise; at "alpine" the same
\* with Alpine(n) and "alpine"; any other version gives the empty map, and no
\* version gives packages of both Debian and Alpine.
C5_DepextDependencies ==
    IsGetDependencies("Depext") =>
        LET names == {call.pkg.p.names[i] : i \in DOMAIN call.pkg.p.names}
            e == call.pkg.p.f[1]
            v == call.version.s
            expected ==
                IF v = "debian" /\ EqualsOs(e, "debian")
                THEN [q \in {BDebian(n) : n \in names} |-> BabelFull]
                ELSE IF v = "alpine" /\ EqualsOs(e, "alpine")
                THEN [q \in {BAlpine(n) : n \in names} |-> BabelFull]
                ELSE EmptyMap
        IN /\ call.out.ok
           /\ call.out.deps = expected
           /\ ~ \E q1, q2 \in DOMAIN call.out.deps : q1.eco = "Debian" /\ q2.eco = "Alpine"

\* A Depext whose filter names the OS literal first was asked at "alpine"
\* and gave its Alpine packages.
C5_Witness ==
    /\ IsGetDependencies("Depext")
    /\ call.pkg.p.f[1] = LitFirst
    /\ call.version.s = "alpine"
    /\ DOMAIN call.out.deps = {BAlpine("libgmp-dev"), BAlpine("gmp-dev")}

ProxyVersions == {BV("Opam", "lhs"), BV("Opam", "rhs")}

\* Every branch of the map m constrains base: m does, or a Proxy of m does at
\* each of its versions.
RECURSIVE OnEveryBranch(_, _)
OnEveryBranch(m, base) ==
    \/ base \in DOMAIN m
    \/ \E q \in DOMAIN m :
          /\ q.p.k = "Proxy"
          /\ \A v \in ProxyVersions :
                LET r == BabelGetDependencies(q, v) IN r.ok => OnEveryBranch(r.deps, base)

\* Some branch of the map m constrains base.
RECURSIVE OnSomeBranch(_, _)
OnSomeBranch(m, base) ==
    \/ base \in DOMAIN m
    \/ \E q \in DOMAIN m :
          /\ q.p.k = "Proxy"
          /\ \E v \in ProxyVersions :
                LET r == BabelGetDependencies(q, v) IN r.ok /\ OnSomeBranch(r.deps, base)

\* C6: a Formula{base, e} package requires base on every branch at version
\* "true" and on no branch at version "false".
C6_BaseOnBranches ==
    IsGetDependencies("Formula") /\ call.out.ok =>
        LET base == BOpam(call.pkg.p.base[1]) IN
        /\ call.version.s = "true" => OnEveryBranch(call.out.deps, base)
        /\ call.version.s = "false" => ~OnSomeBranch(call.out.deps, base)

\* A Formula whose filter is a disjunction was asked at "true" and gave a
\* Proxy, whose branches constrain the base.
C6_Witness ==
    /\ IsGetDependencies("Formula")
    /\ call.out.ok
    /\ call.version.s = "true"
    /\ call.pkg.p.f[1] = VerOrVar
    /\ BOpam(call.pkg.p.base[1]) \notin DOMAIN call.out.deps
    /\ OnEveryBranch(call.out.deps, BOpam(call.pkg.p.base[1]))


\* The filters C7 speaks of: variables, negated variables, comparisons of a
\* variable with a literal, And, Or and version ranges.
RECURSIVE InFilterGrammar(_)
InFilterGrammar(e) ==
    CASE e.t \in {"Version", "Variable", "Not"} -> TRUE
      [] e.t = "Comparator" ->
            {e.args[1].t, e.args[2].t} = {"Variable", "Lit"}
      [] e.t \in {"And", "Or"} -> InFilterGrammar(e.args[1]) /\ InFilterGrammar(e.args[2])
      [] OTHER -> FALSE

RECURSIVE VariablesOf(_)
VariablesOf(e) ==
    CASE e.t \in {"Variable", "Not"} -> {e.v}
      [] e.t \in {"And", "Or", "Comparator"} -> VariablesOf(e.args[1]) \cup VariablesOf(e.args[2])
      [] OTHER -> {}

\* The values an assignment gives a variable.
AssignedValues == {"true", "false", "alpine", "debian", "linux", "haiku"}

Holds(a, relop, b) == a \in relop_to_range(relop, b)

\* The truth of the filter e under the assignment asg of its variables; a
\* version range puts no condition on the variables.
RECURSIVE Truth(_, _)
Truth(e, asg) ==
    CASE e.t = "Version" -> TRUE
      [] e.t = "Variable" -> asg[e.v] = "true"
      [] e.t = "Not" -> asg[e.v] = "false"
      [] e.t = "Comparator" ->
            IF e.args[1].t = "Variable"
            THEN Holds(asg[e.args[1].v], e.op, e.args[2].v)
            ELSE Holds(e.args[1].v, e.op, asg[e.args[2].v])
      [] e.t = "And" -> Truth(e.args[1], asg) /\ Truth(e.args[2], asg)
      [] e.t = "Or" -> Truth(e.args[1], asg) \/ Truth(e.args[2], asg)

\* The assignment asg satisfies the constraints of the map m, a Proxy being
\* satisfied when one of its versions is.
RECURSIVE Satisfies(_, _)
Satisfies(asg, m) ==
    \A q \in DOMAIN m :
        /\ q.p.k = "Var" /\ q.p.names[1] \in DOMAIN asg =>
              BV("Opam", asg[q.p.names[1]]) \in m[q]
        /\ q.p.k = "Proxy" =>
              \E v \in ProxyVersions :
                 LET r == BabelGetDependencies(q, v) IN r.ok /\ Satisfies(asg, r.deps)

\* C7: the constraints a Formula{base, e} emits at version "false" are
\* violated by every assignment of the variables under which e is true.
C7_FalseForbidsTrue ==
    /\ IsGetDependencies("Formula")
    /\ call.version.s = "false"
    /\ call.out.ok
    /\ InFilterGrammar(call.pkg.p.f[1])
    => \A asg \in [VariablesOf(call.pkg.p.f[1]) -> AssignedValues] :
          Truth(call.pkg.p.f[1], asg) => ~Satisfies(asg, call.out.deps)

\* e with its pure version sub-terms stripped.
RECURSIVE Stripped(_)
Stripped(e) ==
    IF e.t \in {"And", "Or"} THEN
        IF e.args[1].t = "Version" THEN Stripped(e.args[2])
        ELSE IF e.args[2].t = "Version" THEN Stripped(e.args[1])
        ELSE [e EXCEPT !.args = <<Stripped(e.args[1]), Stripped(e.args[2])>>]
    ELSE e

\* C8: negate_formula returns a formula for every version formula, and
\* negate_formula(negate_formula(e)) is e with its pure version sub-terms
\* stripped.
C8_DoubleNegation ==
    call.op = "negate_formula" =>
        /\ call.nf # FPanic
        /\ call.prev # <<>> => call.nf = Stripped(call.prev[1])

\* C9: get_dependencies on a listed version of a package compiled from a
\* well-formed formula returns a dependency map and never panics.
C9_NeverPanics ==
    call.op = "get_dependencies" => call.out.ok

\* C10 as stated: once get_dependencies has compiled a comparison of var with
\* lit, list_versions(Var(var)) includes lit, for every variable name.
C10_EveryVariableListsLiteral ==
    \A p \in compiled : p[2] \in Range(OpamListVersions(OVar(p[1])).vs)

\* C10 amended: once get_dependencies has compiled a comparison of var with
\* lit, list_versions(Var(var)) includes lit for every variable other than os
\* and arch; os and arch list their fixed values whatever was compiled.
C10_CachedVariableListsLiteral ==
    /\ \A p \in compiled :
          p[1] \notin {"os", "arch"} => p[2] \in Range(OpamListVersions(OVar(p[1])).vs)
    /\ OpamListVersions(OVar("os")).vs = OsVersions
    /\ OpamListVersions(OVar("arch")).vs = ArchVersions

\* list_versions was called on a variable after a comparison of it with a
\* literal was compiled, and listed the literal.
C10_Witness ==
    /\ call.op = "list_versions"
    /\ call.vs.ok
    /\ \E p \in compiled :
          /\ p[1] \notin {"os", "arch"}
          /\ call.pkg = BOpam(OVar(p[1]))
          /\ BV("Opam", p[2]) \in Range(call.vs.vs)

-----------------------------------------------------------------------------
(* Properties of the synthetic packages                                    *)

\* The children of a Root package, OPAM or unified, as the unified index
\* returns them: pairs <<package, set>>.
ChildrenOf(bp) ==
    IF bp.eco = "Root" THEN Range(bp.bkids)
    ELSE {<<BOpam(k[1]), LiftOpamRange(k[2])>> : k \in Range(bp.p.kids)}

IsRoot(bp) == bp.eco = "Root" \/ (bp.eco = "Opam" /\ bp.p.k = "Root")

\* C11: get_dependencies on a Root package, unified or OPAM, returns exactly
\* its children, and when it returns, for every child (Var(v), singleton(x))
\* the value x is in the variable cache entry of v and list_versions(Var(v))
\* contains x.
C11_RootPinsVariables ==
    call.op = "get_dependencies" /\ IsRoot(call.pkg) =>
        /\ call.out.ok
        /\ DOMAIN call.out.deps = {k[1] : k \in ChildrenOf(call.pkg)}
        /\ \A k \in ChildrenOf(call.pkg) :
              /\ call.out.deps[k[1]] = k[2]
              /\ k[1].eco = "Opam" /\ k[1].p.k = "Var" /\ Cardinality(k[2]) = 1 =>
                    /\ k[1].p.names[1] \in DOMAIN varCache
                    /\ \A x \in k[2] :
                          /\ x.s \in Range(varCache[k[1].p.names[1]])
                          /\ x \in Range(BabelListVersions(k[1]).vs)

\* C12: get_dependencies(Platform(OS), v) returns exactly three singleton
\* constraints: os-distribution = v, os-family = v and os = "linux", for v
\* "debian" and for v "alpine"; list_versions(Platform(OS)) is "debian" then
\* "alpine".
C12_PlatformPinsOs ==
    /\ BabelListVersions(PlatformOS) =
          Listed(<<BV("Platform", "debian"), BV("Platform", "alpine")>>)
    /\ call.op = "get_dependencies" /\ call.pkg = PlatformOS =>
          /\ call.out.ok
          /\ call.version.eco = "Platform"
          /\ call.version.s \in {"debian", "alpine"}
          /\ DOMAIN call.out.deps =
                {BOpam(OVar("os-distribution")), BOpam(OVar("os-family")), BOpam(OVar("os"))}
          /\ call.out.deps[BOpam(OVar("os-distribution"))] = {BV("Opam", call.version.s)}
          /\ call.out.deps[BOpam(OVar("os-family"))] = {BV("Opam", call.version.s)}
          /\ call.out.deps[BOpam(OVar("os"))] = {BV("Opam", "linux")}

\* get_dependencies was called on Platform(OS) at "alpine" and pinned
\* os-family to "alpine".
C12_Witness ==
    /\ call.op = "get_dependencies"
    /\ call.pkg = PlatformOS
    /\ call.version = BV("Platform", "alpine")
    /\ call.out.ok
    /\ call.out.deps[BOpam(OVar("os-family"))] = {BV("Opam", "alpine")}

\* C13: list_versions returns exactly two versions for every Formula, Proxy
\* and Lor package, "true" then "false" for a Formula and "lhs" then "rhs"
\* for a Proxy or a Lor, and choose_version over the full set selects "true"
\* for a Formula and "lhs" for a Proxy or a Lor.
C13_TwoVersionsInOrder ==
    /\ call.op = "list_versions"
    /\ call.pkg.eco = "Opam"
    /\ call.pkg.p.k \in {"Formula", "Proxy", "Lor"}
    => LET first == IF call.pkg.p.k = "Formula" THEN "true" ELSE "lhs"
           second == IF call.pkg.p.k = "Formula" THEN "false" ELSE "rhs"
       IN /\ call.vs = Listed(<<BV("Opam", first), BV("Opam", second)>>)
          /\ BabelChooseVersion(call.pkg, BabelFull) =
                [ok |-> TRUE, v |-> <<BV("Opam", first)>>]

\* The conflict classes that version v of the OPAM package name declares.
DeclaredClasses(name, v) ==
    {pf.names[1] : pf \in {x \in Range(Repo[name][v]) : x.t = "ConflictClass"}}

\* The decisions of the resolution on packages that declare class c.
Declarers(c) ==
    {i \in DOMAIN solver.stack :
        /\ solver.stack[i].p.eco = "Opam"
        /\ solver.stack[i].p.p.k = "Base"
        /\ c \in DeclaredClasses(solver.stack[i].p.p.names[1], solver.stack[i].v.s)}

\* C14: no solution contains two distinct packages that declare the same
\* conflict class c: every declarer P emits ConflictClass(c) = singleton(P),
\* P is a member of c in the cache before ConflictClass(c) is listed, and
\* ConflictClass(c) is selected at exactly one member.
C14_OneMemberPerClass ==
    \A c \in {"cls"} :
        /\ \A i \in Declarers(c) :
              /\ solver.stack[i].deps[BOpam(OConflictClass(c))] =
                    {BV("Opam", solver.stack[i].p.p.names[1])}
              /\ c \in DOMAIN ccCache
              /\ solver.stack[i].p.p.names[1] \in Range(ccCache[c])
        /\ BOpam(OConflictClass(c)) \in Required(solver.stack) =>
              BabelListVersions(BOpam(OConflictClass(c))).ok
        /\ solver.status = "solved" =>
              /\ Cardinality({solver.stack[i].p : i \in Declarers(c)}) <= 1
              /\ \A i \in Declarers(c) :
                    /\ BOpam(OConflictClass(c)) \in DOMAIN Solution
                    /\ Solution[BOpam(OConflictClass(c))] =
                          BV("Opam", solver.stack[i].p.p.names[1])

\* A solution selects one of two packages that declare the same class, and
\* the class at that member, both members being in the cache.
C14_Witness ==
    /\ solver.status = "solved"
    /\ Declarers("cls") # {}
    /\ BOpam(OConflictClass("cls")) \in DOMAIN Solution
    /\ Len(ccCache["cls"]) = 2

\* The constraints that a side of a disjunction compiles to: a dependency on
\* a package within a version range is that package in that range.
SideConstraints(pf) ==
    IF pf.t = "Base" /\ pf.f[1].t = "Version"
    THEN [q \in {BOpam(OBase(pf.names[1]))} |-> LiftOpamRange(pf.f[1].rng)]
    ELSE LiftOpamDeps(from_formula(pf).deps)

\* The solution satisfies every constraint of the map m.
SolutionMeets(m) ==
    \A q \in DOMAIN m : q \in DOMAIN Solution /\ Solution[q] \in m[q]

\* No listed version of some package constrained in m is in its set.
Unsatisfiable(m) ==
    \E q \in DOMAIN m : Listing(q) \cap m[q] = {}

\* The disjunctions in the depends of the package decided as stack[i].
Disjunctions(i) ==
    IF solver.stack[i].p.eco = "Opam" /\ solver.stack[i].p.p.k = "Base"
    THEN {pf \in Range(Repo[solver.stack[i].p.p.names[1]][solver.stack[i].v.s]) : pf.t = "Or"}
    ELSE {}

\* C15: for a package whose depends contains a disjunction A | B the
\* compiler emits one Lor{lhs, rhs} package; at "lhs" its dependencies are
\* exactly the compiled constraints of A and at "rhs" those of B; every
\* solution that contains the Lor satisfies the constraints of at least one
\* side, and no solution is returned when neither side is satisfiable.
C15_LorTakesOneSide ==
    \A i \in DOMAIN solver.stack :
        LET frame == solver.stack[i] IN
        /\ \A pf \in Disjunctions(i) :
              /\ BOpam(OLor(pf.args[1], pf.args[2])) \in DOMAIN frame.deps
              /\ frame.deps[BOpam(OLor(pf.args[1], pf.args[2]))] = BabelFull
        /\ frame.p.eco = "Opam" /\ frame.p.p.k = "Lor" =>
              /\ frame.v.s = "lhs" => frame.deps = SideConstraints(frame.p.p.pf[1])
              /\ frame.v.s = "rhs" => frame.deps = SideConstraints(frame.p.p.pf[2])
              /\ frame.v.s \in {"lhs", "rhs"}
              /\ solver.status = "solved" =>
                    /\ \/ SolutionMeets(SideConstraints(frame.p.p.pf[1]))
                       \/ SolutionMeets(SideConstraints(frame.p.p.pf[2]))
                    /\ \/ ~Unsatisfiable(SideConstraints(frame.p.p.pf[1]))
                       \/ ~Unsatisfiable(SideConstraints(frame.p.p.pf[2]))

\* A solution selects a Lor at "rhs", its left side being ruled out by the
\* other requirements, and satisfies the right side only.
C15_Witness ==
    /\ solver.status = "solved"
    /\ \E i \in DOMAIN solver.stack :
          /\ solver.stack[i].p.eco = "Opam"
          /\ solver.stack[i].p.p.k = "Lor"
          /\ solver.stack[i].v.s = "rhs"
          /\ SolutionMeets(SideConstraints(solver.stack[i].p.p.pf[2]))
          /\ ~SolutionMeets(SideConstraints(solver.stack[i].p.p.pf[1]))

-----------------------------------------------------------------------------
(* Properties of BabelVersionSet                                           *)

\* C16: for every BabelVersionSet S, S.intersection(S.complement()) equals
\* Empty and S.union(S.complement()) equals Full under the type's equality.
C16_ComplementLaws ==
    /\ call.op = "intersection" /\ call.sets[2] = complement(call.sets[1]) =>
          eq(call.set, VsEmpty) = "true"
    /\ call.op = "union" /\ call.sets[2] = complement(call.sets[1]) =>
          eq(call.set, VsFull) = "true"

\* A and B are Empty, Full or of the same ecosystem.
Compatible(A, B) ==
    A.tag \in {"Empty", "Full"} \/ B.tag \in {"Empty", "Full"} \/ A.tag = B.tag

\* C17: union is set union: for all A and B that are Empty, Full or of the
\* same ecosystem and every version v, A.union(B).contains(v) if and only if
\* A.contains(v) or B.contains(v); Empty is the identity and Full absorbs,
\* in both argument orders.
C17_UnionIsSetUnion ==
    call.op = "union" /\ Compatible(call.sets[1], call.sets[2]) =>
        /\ call.set # VsPanic
        /\ \A v \in SetVersions :
              contains(call.set, v) <=>
                  contains(call.sets[1], v) \/ contains(call.sets[2], v)
        /\ call.sets[1] = VsEmpty => eq(call.set, call.sets[2]) = "true"
        /\ call.sets[2] = VsEmpty => eq(call.set, call.sets[1]) = "true"
        /\ VsFull \in {call.sets[1], call.sets[2]} => eq(call.set, VsFull) = "true"

\* The hash set that list_versions reads for an OPAM package, as the
\* sequence it iterates in: None (<<>>) for a package listed otherwise.
CacheEntry(package) ==
    IF package.k = "ConflictClass" /\ package.names[1] \in DOMAIN ccCache
    THEN <<ccCache[package.names[1]]>>
    ELSE IF /\ package.k = "Var"
            /\ package.names[1] \notin {"os", "arch"}
            /\ package.names[1] \in DOMAIN varCache
    THEN <<varCache[package.names[1]]>>
    ELSE <<>>

\* C19: two choose_version calls with the same package, the same version
\* set, identical indices and identical cache contents return the same
\* version, Var and ConflictClass packages included: the version returned
\* is the same in whatever order the hash set of cached values iterates.
C19_ChoiceDeterministic ==
    call.op = "choose_version" /\ call.idx = "opam" =>
        \A entry \in Range(CacheEntry(call.pkg.p)) :
            \A order \in Orders(Range(entry)) :
                FirstIn(order, call.range) = call.chosen

-----------------------------------------------------------------------------
(* Properties of the process-wide caches                                   *)

\* The cache entries that list_versions(q) returns: those of the variable
\* or of the conflict class of q, as <<cache, key, value>>.
CachedListing(q) ==
    IF q.eco # "Opam" THEN {}
    ELSE IF q.p.k = "Var" /\ q.p.names[1] \notin {"os", "arch"}
    THEN {c \in Contents(varCache, ccCache) : c[1] = "var" /\ c[2] = q.p.names[1]}
    ELSE IF q.p.k = "ConflictClass"
    THEN {c \in Contents(varCache, ccCache) : c[1] = "cc" /\ c[2] = q.p.names[1]}
    ELSE {}

\* C18: at the start of every resolution the variable cache and the
\* conflict-class cache are empty, whatever resolutions ran earlier in the
\* process, so that list_versions of a Var or ConflictClass package never
\* returns a value that only an earlier resolution inserted.
C18_CachesEmptyAtStart ==
    solver.status # "idle" =>
        /\ solver.before = {}
        /\ \A q \in Required(solver.stack) :
              CachedListing(q) \cap (solver.before \ solver.own) = {}

\* C20: when two resolutions run concurrently in one process, no
\* list_versions result of one contains a variable value or a conflict-class
\* member that only the other inserted.
C20_OwnInsertionsOnly ==
    solver.status # "idle" =>
        \A q \in Required(solver.stack) :
            CachedListing(q) \subseteq solver.before \cup solver.own

\* C21: across any sequence of list_versions, choose_version and
\* get_dependencies calls the variable cache and the conflict-class cache
\* only grow, every (variable, value) and (class, member) pair present
\* after one call being present after every later one, and no such call
\* modifies the package maps of an index.
C21_CachesOnlyGrow ==
    [][/\ Contents(varCache, ccCache) \subseteq Contents(varCache', ccCache')
       /\ call'.op \in {"list_versions", "choose_version", "get_dependencies"} =>
              UNCHANGED <<alpinePackages, indexPackages>>]_vars

\* A get_dependencies call has added a second member to a conflict class,
\* with both indices filled.
C21_Witness ==
    /\ call.op = "get_dependencies"
    /\ "cls" \in DOMAIN ccCache /\ Len(ccCache["cls"]) = 2
    /\ DOMAIN alpinePackages # {} /\ DOMAIN indexPackages # {}

-----------------------------------------------------------------------------
(* Properties of unpinned variables                                        *)

\* The comparisons v = "x" that the Formula package q carries, as <<v, x>>.
EqLiteral(q) ==
    IF q.eco = "Opam" /\ q.p.k = "Formula" /\ q.p.f[1].op = "Eq"
    THEN DirectComparison(q) ELSE {}

\* A Root or the Platform package constrains the variable.
Pinned(var) ==
    \E i \in DOMAIN solver.stack :
        /\ BOpam(OVar(var)) \in DOMAIN solver.stack[i].deps
        /\ \/ solver.stack[i].p.eco \in {"Root", "Platform"}
           \/ solver.stack[i].p.eco = "Opam" /\ solver.stack[i].p.p.k = "Root"

\* The variable is unpinned, is neither os nor arch, and has been compiled
\* against the literal x only.
OnlyLiteral(var, x) ==
    /\ var \notin {"os", "arch"}
    /\ ~Pinned(var)
    /\ var \in DOMAIN varCache /\ Range(varCache[var]) = {x}

\* C22: when an unpinned variable v other than os and arch occurs in the
\* compiled formulas only in comparisons v = "x" against one literal x, the
\* Formula package carrying that filter is not selected at "false": every
\* solution selects it at "true", selects Var(v) = x and includes the
\* filtered dependency.
C22_SingleLiteralForcesTrue ==
    solver.status = "solved" =>
        \A q \in DOMAIN Solution : \A c \in EqLiteral(q) :
            OnlyLiteral(c[1], c[2]) =>
                /\ Solution[q] = BV("Opam", "true")
                /\ BOpam(OVar(c[1])) \in DOMAIN Solution
                /\ Solution[BOpam(OVar(c[1]))] = BV("Opam", c[2])
                /\ BOpam(q.p.base[1]) \in DOMAIN Solution

\* A solution with a Formula package on os-distribution = "alpine", the
\* variable unpinned and compiled against "alpine" only.
C22_Witness ==
    /\ solver.status = "solved"
    /\ \E q \in DOMAIN Solution :
          /\ <<"os-distribution", "alpine">> \in EqLiteral(q)
          /\ OnlyLiteral("os-distribution", "alpine")

-----------------------------------------------------------------------------
(* Properties of the server's responses                                    *)

\* q is an OPAM Base, a Debian Base or an Alpine Base whose name does not
\* start with so:.
RealPackage(q) ==
    /\ q.eco \in {"Opam", "Debian", "Alpine"}
    /\ q.p.k = "Base"
    /\ q.eco = "Alpine" => q.p.names[1] \notin SoNames

\* The entry e of a response shows q at version ver.
Shows(e, q, ver) ==
    /\ e.name = q.p.names[1]
    /\ e.ecosystem = (CASE q.eco = "Opam" -> "opam" [] q.eco = "Debian" -> "debian"
                          [] q.eco = "Alpine" -> "alpine" [] OTHER -> "")
    /\ e.version.s = ver.s /\ e.version.a = ver.a

Invalid(request) ==
    \/ request.platform # <<>> /\ request.platform[1] \notin {"alpine", "debian"}
    \/ request.ecosystem \notin {"opam", "debian", "alpine", "cargo"}
    \/ request.ecosystem = "cargo" /\ request.version.s \notin SemVers

\* Version strings, well formed or not.
VersionStrings ==
    {Str(s) : s \in {"", "1", "not-a-version"}} \cup {Chars(a) : a \in {<<>>, <<"2">>}}

\* C24: resolve_dependencies called with a platform other than alpine or
\* debian, with an ecosystem other than opam, debian, alpine or cargo, or
\* with a cargo version that is not valid SemVer returns an error before any
\* repository index is loaded and before the solver is invoked, and never a
\* response with resolved: true; for opam, debian and alpine every version
\* string passes validation.
C24_InvalidRequestRejected ==
    [][/\ call'.op = "response" /\ Invalid(call'.request[1]) =>
              /\ ~call'.response[1].resolved
              /\ DOMAIN alpinePackages = {} /\ solver.status = "idle"
              /\ UNCHANGED <<alpinePackages, solver, varCache, ccCache>>
       /\ \A ecosystem \in {"opam", "debian", "alpine"} : \A version \in VersionStrings :
              \A platform \in {<<>>, <<"alpine">>, <<"debian">>} :
                  Validate(Request(ecosystem, "conf-gmp", version, platform)).ok]_vars

\* A cargo request with a version that is not SemVer is answered with an
\* error by a process that has answered a resolution before.
C24_Witness ==
    /\ call.op = "response"
    /\ call.request = <<Request("cargo", "serde", Str("1"), <<"alpine">>)>>
    /\ call.response = <<Failed("Invalid Cargo version")>>
    /\ solver.nth = 1

-----------------------------------------------------------------------------
(* Properties of the version orders                                        *)

Flip(ord) == CASE ord = "Less" -> "Greater" [] ord = "Greater" -> "Less" [] OTHER -> ord

\* The suffix of a after the base b, as an Option.
SuffixOn(a, b) ==
    {suffix \in PreSuffixes \cup PostSuffixes : a = WithSuffix(b, suffix)}

\* Where the suffix stands in alpha < beta < pre < rc < (no suffix) < p.
Place(suffix) ==
    CASE suffix = <<"a", "l", "p", "h", "a">> -> 0 [] suffix = <<"b", "e", "t", "a">> -> 1
      [] suffix = <<"p", "r", "e">> -> 2 [] suffix = <<"r", "c">> -> 3
      [] suffix = <<>> -> 4 [] suffix = <<"p">> -> 5 [] OTHER -> 6

\* The order of AlpineVersion on the call's arguments a and b for the bases
\* in Bases: b_s < b for a pre-release suffix s, b < b_s for a suffix s in
\* {p, cvs, svn, git, hg}, the suffixes on one base in their order, and
\* cmp(a, b) the reverse of cmp(b, a).
SuffixOrder(Bases) ==
    call.op = "cmp" /\ call.idx = "alpine" =>
        /\ \A suffix \in SuffixOn(call.args[1], call.args[2]) :
              call.args[2] \in Bases =>
                  call.ord = IF suffix \in PreSuffixes THEN "Less" ELSE "Greater"
        /\ \A base \in Bases :
              \A s \in SuffixOn(call.args[1], base) \cup {<<>>} :
                  \A t \in SuffixOn(call.args[2], base) \cup {<<>>} :
                      /\ s = <<>> => call.args[1] = base
                      /\ t = <<>> => call.args[2] = base
                      /\ Place(s) < Place(t) /\ Place(t) <= 5
                      => call.ord = "Less"
        /\ call.ord = Flip(AlpineCmp(call.args[2], call.args[1]))

\* C25: for every version string b, b_s < b for each pre-release suffix s
\* in {alpha, beta, pre, rc} and b < b_s for each suffix s in {p, cvs, svn,
\* git, hg}; on one base the suffixes order as alpha < beta < pre < rc <
\* (no suffix) < p; and cmp(a, b) is always the reverse of cmp(b, a).
C25_SuffixOrder == SuffixOrder(AlpineBases)


\* C26: a DebianVersion with the larger integer epoch (absent = 0) is the
\* greater one whatever the rest; with equal epochs the upstream part decides
\* before the revision, and an absent revision counts as "0"; for every
\* upstream u and non-empty x without "-" and ":", u~x is below u, and u is
\* below ux when x begins with a character that is neither a digit nor "~".
Compared(a, b) == call.idx = "debian" /\ call.op = "cmp" /\ call.args = <<a, b>>
UpstreamOrder(a, b) ==
    compare_token_vecs(debian_tokenize(split(a).upstream), debian_tokenize(split(b).upstream), 1)
Bare(v) == \A i \in DOMAIN v : v[i] \notin {"-", ":", " "}
-----------------------------------------------------------------------------
(* Properties of the APKINDEX parser                                        *)

\* C27: for every name without "<", ">" and "=", every operator op of <, <=, =,
\* >= and > and every version ver, parse_alpine_dependency_item(name op ver)
\* has package = name, relation = op and version = ver; an item without an
\* operator is the package name whole, with no version constraint.
C27_ItemParsed ==
    call.idx = "item" /\ call.op = "parsed" =>
        call.response[1] =
            IF call.args[2] = <<>> THEN ParsedDependency(call.args[1], <<>>)
            ELSE ParsedDependency(call.args[1],
                     <<VersionConstraint(Relation(call.args[2]), call.args[3])>>)

-----------------------------------------------------------------------------
(* Properties of the calls the engine makes                                 *)

\* The packages that stand for a formula or for the platform, and those of
\* an ecosystem's repository.
Synthetic(q) ==
    \/ q.eco = "Platform"
    \/ q.eco = "Opam" /\ q.p.k \in {"Formula", "Proxy", "Lor"}
Real(q) == q.eco \in {"Opam", "Debian", "Alpine"} /\ q.p.k = "Base"

\* get_dependencies(q, v) is called with a listed version of q, of q's ecosystem.
ProperCall(q, v) ==
    /\ Synthetic(q) => BabelListVersions(q).ok /\ v \in Range(BabelListVersions(q).vs)
    /\ Real(q) => v.eco = q.eco

\* The call that the engine makes next for q, when choose_version has a
\* version for it.
NextCallProper(q, c) == c.ok /\ c.v # <<>> => ProperCall(q, c.v[1])

\* C28: in a resolution started from a root package, every
\* get_dependencies(P, V) call the engine makes on a Formula, Proxy, Lor or
\* Platform package has V among the versions list_versions(P) returns, and
\* every call on a real package carries a version of the package's own
\* ecosystem: the calls made so far (the decisions and the versions ruled
\* out) and the call that comes next.
C28_CallsProper ==
    solver.status \in {"solving", "solved", "failed"} =>
        /\ \A i \in DOMAIN solver.stack : ProperCall(solver.stack[i].p, solver.stack[i].v)
        /\ \A i \in DOMAIN solver.ban : \A b \in solver.ban[i] : ProperCall(b[1], b[2])
        /\ solver.status = "solving" =>
              \A q \in Required(solver.stack) :
                  IsNext(q) => NextCallProper(q, BabelChooseVersion(q, Candidates(q)))
C28_Witness ==
    /\ solver.status = "solving"
    /\ \E i \in DOMAIN solver.stack : solver.stack[i].p.eco = "Platform"
    /\ \E i \in DOMAIN solver.stack :
          solver.stack[i].p.eco = "Opam" /\ solver.stack[i].p.p.k = "Formula"
    /\ \E i \in DOMAIN solver.stack : Real(solver.stack[i].p)

\* C29: for AlpineVersion and DebianVersion, cmp(a, b) is Equal if and only
\* if a and b are the same string, so that two distinct version strings never
\* are the same key of an index's ordered version map.
C29_EqualIffSameString ==
    call.op = "cmp" => (call.ord = "Equal" <=> call.args[1] = call.args[2])

\* C30: after create_index over a list of stanzas, for every stanza with
\* package P, version V and a provides entry p, the index lists P as a
\* version of p and get_dependencies(p, P) is exactly {P -> singleton(V)},
\* also when several versions of P provide p and when p is the name of a
\* real package too.
Provided(ap, p) ==
    /\ \E k \in DOMAIN AlpineListVersions(OBase(p)) : AlpineListVersions(OBase(p))[k] = ap.package
    /\ AlpineGetDependencies(p, ap.package) =
          [avail |-> TRUE, deps |-> [x \in {ap.package} |-> AlpineRange("Eq", ap.version)]]
C30_ProvidesIndexed ==
    call.idx = "apkindex" /\ call.op = "created" =>
        \A i \in DOMAIN call.args : \A j \in DOMAIN call.args[i].provides :
            Provided(call.args[i], call.args[i].provides[j].package)
====
